---- MODULE Spec2Model ----
(***************************************************************************)
(* Linear to-do integration: the API client's request wrapper              *)
(* (integration_linear/api.py), the polling coordinator                    *)
(* (coordinator.py) and the to-do list entity (integration_linear/todo.py).*)
(*                                                                         *)
(* The code runs on one asyncio event loop: a task runs without            *)
(* interruption from one await to the next.  An action of this module is   *)
(* the code between two awaits of one task.                                *)
(***************************************************************************)
EXTENDS Integers, Sequences, FiniteSets, TLC

VARIABLES
    api_token,            \* per client object: client._api_token
    token_refresh_callback, \* per client object: TRUE iff _token_refresh_callback is set
    refresh_in_progress,  \* per client object: client._refresh_in_progress
    calls,                \* per task: the frame of its _api_wrapper call
    team_states,          \* entry.data[CONF_TEAM_STATES]
    issues,               \* the remote tracker: issue id -> team, state, updatedAt
    now,                  \* the clock, in days
    data,                 \* coordinator.data, the cached snapshot
    cycle,                \* the frame of _async_update_data
    refresh_requested,    \* coordinator.async_request_refresh() is pending
    todo_call,            \* the frame of the call of a to-do entity method
    mutated,              \* the last successful to-do mutation and its day
    entry,                \* entry.data: the api_token, token and teams keys
    flow,                 \* the fields of the flow handler
    method_call,          \* the direct call of a client method and where it stands
    service_call,         \* the frame of the handler of the service create_issue
    setup                 \* how far async_setup_entry is, and what it has built

apiVars == <<api_token, token_refresh_callback, refresh_in_progress, calls>>
\* The config entry and what the host runs beside the integration.
hostVars == <<entry, setup, flow, method_call, service_call>>
sysVars == <<team_states, issues, now, data, cycle, refresh_requested,
             todo_call, mutated>>
vars == <<api_token, token_refresh_callback, refresh_in_progress, calls,
          team_states, issues, now, data, cycle, refresh_requested,
          todo_call, mutated, entry, flow, method_call, service_call, setup>>

None == "None"

(***************************************************************************)
(* Bounds of the model.                                                    *)
(***************************************************************************)
MaxToken == 1     \* access tokens are 0..MaxToken
MaxErrors == 1    \* entries in the "errors" list of a GraphQL response

(***************************************************************************)
(* api.py: HTTP statuses and exception classes.                            *)
(***************************************************************************)
HTTP_STATUS_BAD_REQUEST == 400
HTTP_STATUS_UNAUTHORIZED == 401
HTTP_STATUS_FORBIDDEN == 403

AuthenticationError == "IntegrationBlueprintApiClientAuthenticationError"
CommunicationError == "IntegrationBlueprintApiClientCommunicationError"
ApiClientError == "IntegrationBlueprintApiClientError"
Returned == "returned"

\* The exception classes: both subclasses are IntegrationBlueprintApiClientError.
IsApiClientError(e) == e \in {ApiClientError, CommunicationError, AuthenticationError}

(***************************************************************************)
(* What the HTTP session can hand back for one request.  A message is      *)
(* modelled by the set of the substrings the code searches for that the    *)
(* lower-cased message contains.                                           *)
(***************************************************************************)
Statuses == {200, HTTP_STATUS_UNAUTHORIZED, HTTP_STATUS_FORBIDDEN, 500}
Messages == {{}, {"unauthorized"}, {"401"}}
StatusCodes == {0, 401}              \* extensions.statusCode; 0: there is none
GraphQLErrors == [message : Messages, statusCode : StatusCodes]
NoErrors == <<>>                     \* "errors" is not in the document
ErrorLists == UNION {[1..n -> GraphQLErrors] : n \in 1..MaxErrors}
\* kind: an HTTP response, or what session.request raised instead.
\* json = FALSE: response.json() raises ContentTypeError (an aiohttp.ClientError).
ClientError == "aiohttp.ClientError"
Timeout == "TimeoutError"
NotJson == "aiohttp.ContentTypeError"
Failures == {[kind |-> k, status |-> 0, json |-> FALSE, errors |-> NoErrors] :
                k \in {ClientError, Timeout}}
HttpResponses ==
    [kind : {"response"}, status : Statuses, json : {TRUE},
     errors : ErrorLists \cup {NoErrors}]
    \cup [kind : {"response"}, status : Statuses, json : {FALSE}, errors : {NoErrors}]
Responses == HttpResponses \cup Failures
NoResponse == [kind |-> "none", status |-> 0, json |-> FALSE, errors |-> NoErrors]

\* A few representative answers, for the runs where two calls overlap.
CoreResponses ==
    { [kind |-> "response", status |-> 200, json |-> TRUE, errors |-> NoErrors],
      [kind |-> "response", status |-> HTTP_STATUS_UNAUTHORIZED, json |-> TRUE,
       errors |-> NoErrors],
      [kind |-> "response", status |-> 500, json |-> TRUE,
       errors |-> <<[message |-> {"unauthorized"}, statusCode |-> 0]>>],
      [kind |-> "response", status |-> 500, json |-> TRUE,
       errors |-> <<[message |-> {}, statusCode |-> 401]>>],
      [kind |-> "response", status |-> 500, json |-> TRUE, errors |-> NoErrors],
      [kind |-> ClientError, status |-> 0, json |-> FALSE, errors |-> NoErrors] }

Tokens == 0..MaxToken
Tasks == {"coordinator", "todo"}

HasErrors(result) == result.errors # NoErrors

\* lines 601-609: what "await session.request" and "await response.json()"
\* raise for this answer, None when they give a document.
Raised(r) ==
    IF r.kind # "response" THEN r.kind
    ELSE IF ~r.json THEN NotJson
    ELSE None

\* lines 613-625: the check made on the first response.
IsAuthError(status, result) ==
    IF status \in {HTTP_STATUS_UNAUTHORIZED, HTTP_STATUS_FORBIDDEN} THEN TRUE
    ELSE IF status >= HTTP_STATUS_BAD_REQUEST /\ HasErrors(result)
         THEN \E i \in 1..Len(result.errors) :
                 \/ result.errors[i].statusCode \in {401, 403}
                 \/ "unauthorized" \in result.errors[i].message
         ELSE FALSE

\* lines 653-715: what the call raises or returns for the response it ends with.
FinalOutcome(status, result) ==
    IF status \in {HTTP_STATUS_UNAUTHORIZED, HTTP_STATUS_FORBIDDEN}
    THEN AuthenticationError
    ELSE IF status >= HTTP_STATUS_BAD_REQUEST
    THEN IF HasErrors(result)
         THEN IF \E i \in 1..Len(result.errors) :
                     "unauthorized" \in result.errors[i].message
              THEN AuthenticationError
              ELSE ApiClientError
         ELSE CommunicationError       \* raise_for_status: a ClientResponseError
    ELSE IF HasErrors(result)
    THEN IF \E i \in 1..Len(result.errors) :
                result.errors[i].message \cap {"401", "403", "unauthorized"} # {}
         THEN AuthenticationError
         ELSE ApiClientError
    ELSE Returned

\* lines 717-733: the outer handlers, for what the first request raises.
OuterHandler(exc) ==
    CASE exc = Timeout -> CommunicationError
      [] exc = ClientError -> CommunicationError
      [] exc = NotJson -> CommunicationError
      [] OTHER -> ApiClientError

\* lines 647-649: "except Exception" around the refresh and the retry.  A
\* timeout cancels the task (CancelledError is no Exception) and surfaces as
\* TimeoutError at the timeout block.
RefreshHandler(exc) ==
    IF exc = Timeout THEN OuterHandler(Timeout) ELSE AuthenticationError

\* The refresh is attempted on any response.
ShouldRefreshAlways(is_auth_error, retry_on_auth_error, callback, in_progress) ==
    retry_on_auth_error /\ callback /\ ~in_progress

\* lines 627-628: whether the refresh and the retry are attempted.
ShouldRefresh(is_auth_error, retry_on_auth_error, callback, in_progress) ==
    is_auth_error /\ retry_on_auth_error /\ callback /\ ~in_progress

\* The flag is reset at the end of the try body only: it stays set when the
\* callback or the retried request raised.
ResetInTryBody(exc) ==
    exc # None

\* lines 650-651: the "finally" clause gives _refresh_in_progress its value
\* however the refresh block was left (exc: what was raised in it, or None).
FinallyRefreshInProgress(exc) ==
    FALSE

teams == <<"t1", "t2">>            \* entry.data[CONF_TEAMS] of a new entry
Teams == {teams[k] : k \in 1..Len(teams)}

\* The config entry data.  A key that is absent is the empty set, a key that
\* is present the set of its value.  expires_at = 0: the token has no such key.
NoEntry == [api_token |-> {}, token |-> {}, teams |-> <<>>]   \* no entry yet
ApiKeyEntry(token) ==
    [api_token |-> {token}, token |-> {}, teams |-> teams]
OAuthToken(access_token, expires_at) ==
    [access_token |-> access_token, refresh_token |-> "refresh_token",
     expires_at |-> expires_at]
OAuthEntry(access_token, expires_at) ==
    [api_token |-> {}, token |-> {OAuthToken(access_token, expires_at)},
     teams |-> teams]

\* The seconds at which a token can expire, and the values of time.time()
\* at which the refresh callback runs.
ExpiresAt == {0, 100, 4000}
Times == {0, 50}
Entries == {ApiKeyEntry(0)} \cup {OAuthEntry(0, expires_at) : expires_at \in ExpiresAt}

\* What the token endpoint hands back through the host's OAuth implementation,
\* which gives every new token an expires_at.
NewTokens ==
    {OAuthToken(access_token, expires_at) :
        access_token \in Tokens, expires_at \in ExpiresAt \ {0}}

\* No setup flow is running.
NoFlow == [step |-> "none"]

\* No client method is being called directly.
IdleMethodCall == [op |-> "idle", pc |-> "idle"]

\* The value of a key that is present.
Value(key) == CHOOSE v \in key : TRUE

\* The client gets a callback for every entry.
CallbackForEveryEntry(e) ==
    TRUE

\* __init__.py lines 164-180: the token and the callback that async_setup_entry
\* hands to the client.
SetupApiToken(e) ==
    IF e.api_token # {}
    THEN Value(e.api_token)
    ELSE Value(e.token).access_token
SetupTokenRefreshCallback(e) ==
    e.api_token = {}

(***************************************************************************)
(* __init__.py: async_setup_entry.  The setup record:                      *)
(*   pc        "first_refresh" (awaiting line 199), "forward" (awaiting    *)
(*             line 201, the platform not yet called), "platform" (the     *)
(*             platform awaits async_get_teams, todo.py line 38),          *)
(*             "loaded" (it has returned True), "not_ready" (the first     *)
(*             refresh raised), "unloaded" (async_unload_entry has         *)
(*             returned True)                                              *)
(*   client    the index of entry.runtime_data.client among the client     *)
(*             objects built so far                                        *)
(*   selected_teams  what the platform read at todo.py line 33             *)
(*   entities  the teams of the to-do entities that the platform added     *)
(*   reload    the update listener async_reload_entry has been scheduled   *)
(***************************************************************************)
MaxClients == 2    \* client objects: the one of the first setup, one more
                   \* per later setup
Clients == 1..MaxClients

FirstRefresh ==
    [pc |-> "first_refresh", client |-> 1, selected_teams |-> <<>>,
     entities |-> <<>>, reload |-> FALSE]
Loaded ==
    [pc |-> "loaded", client |-> 1, selected_teams |-> teams,
     entities |-> teams, reload |-> FALSE]
NotSetUp ==
    [pc |-> "none", client |-> 0, selected_teams |-> <<>>, entities |-> <<>>,
     reload |-> FALSE]

\* The host's hass.config_entries.async_update_entry: when the data changed,
\* it schedules the update listeners, and async_reload_entry (__init__.py
\* lines 202, 215-221) is one once the setup has registered it.
async_update_entry(s, changed) ==
    [s EXCEPT !.reload = @ \/ (changed /\ s.pc = "loaded")]

\* The _api_token of a client object that has not been built.
NoApiToken == -1

(***************************************************************************)
(* oauth.py: the refresh callback that async_setup_entry installs.         *)
(***************************************************************************)
EXPIRY_MARGIN == 60

\* lines 46-48: the token is expired or about to expire.
Expired(token, time) ==
    token.expires_at # 0 /\ time >= token.expires_at - EXPIRY_MARGIN

\* lines 20-54: async_get_valid_token up to its first suspension: it raises
\* ValueError, returns the stored access token, or awaits async_refresh_token.
async_get_valid_token(e, time) ==
    IF e.token = {}
    THEN [kind |-> "raise", access_token |-> NoApiToken]
    ELSE IF Expired(Value(e.token), time)
    THEN [kind |-> "await", access_token |-> NoApiToken]
    ELSE [kind |-> "return", access_token |-> Value(e.token).access_token]

\* lines 94-108: async_refresh_token stores the new token in the entry data.
async_refresh_token(e, new_token) ==
    [e EXCEPT !.token = {new_token}]

\* What team_states.get(team_id, {}) gives for a team with no entry, with the
\* defaults of the .get calls that follow it.
NoTeamConfig ==
    [todo_states |-> <<>>, completed_state |-> None, removed_state |-> None]
NoTeamStatesConfig == [t \in Teams |-> NoTeamConfig]

\* The idle frames of the coordinator, of the entity and of the service.
IdleCycle ==
    [pc |-> "idle", idx |-> 0, updated_since |-> 0, result |-> <<>>,
     team_data |-> [todo |-> <<>>, completed |-> <<>>], fetches |-> <<>>,
     raised |-> None, previous |-> <<>>, teams |-> <<>>,
     team_states |-> NoTeamStatesConfig]
NoMutation ==
    [kind |-> "none", ids |-> {}, team |-> None, cfg |-> NoTeamConfig,
     day |-> 0, followed |-> FALSE]
IdleTodoCall == [op |-> "idle", pc |-> "idle"]
IdleServiceCall == [pc |-> "idle"]

\* What a cycle that fetched nothing for any of the teams returns.
EmptySnapshot(team_ids) ==
    [k \in 1..Len(team_ids) |->
        [team |-> team_ids[k], todo |-> <<>>, completed |-> <<>>]]

\* The frame of a call: client is the client object it runs on, headers and
\* retry_headers are the Authorization values of the two requests (-1: not
\* built), refresh is what the callback did (None: not invoked or not
\* finished).
IdleCall ==
    [pc |-> "idle", headers |-> -1, first |-> NoResponse,
     response |-> NoResponse, new_token |-> -1, requests |-> 0,
     refreshes |-> 0, outcome |-> None, retry_headers |-> -1,
     refresh |-> None, client |-> 0]

\* lines 576-606: _graphql_query builds the headers from the stored token of
\* the client c and _api_wrapper sends the first request.
ApiStart(t, c) ==
    /\ calls[t].pc = "idle"
    /\ c \in 1..setup.client
    /\ calls' = [calls EXCEPT ![t] =
                   [IdleCall EXCEPT !.pc = "request", !.headers = api_token[c],
                                    !.requests = 1, !.client = c]]
    /\ UNCHANGED <<api_token, token_refresh_callback, refresh_in_progress>>
    /\ UNCHANGED <<hostVars, sysVars>>

\* The token returned by the callback is used for the retry but not stored.
KeepStoredToken(stored, new_token) ==
    stored

\* line 633: self._api_token = new_token.
RefreshedApiToken(stored, new_token) ==
    new_token

\* lines 601-651 and 653-733: the first response arrives, at time.  The
\* callback that needs no new token returns without suspending, and the retry
\* is sent in the same step.
ApiFirstResponse(t, r, time) ==
    /\ calls[t].pc = "request"
    /\ LET c == calls[t].client
           callback == async_get_valid_token(entry, time)
       IN  IF Raised(r) # None
           THEN /\ calls' = [calls EXCEPT ![t].pc = "done", ![t].first = r,
                                ![t].response = r,
                                ![t].outcome = OuterHandler(Raised(r))]
                /\ UNCHANGED <<api_token, refresh_in_progress>>
           ELSE IF ~ShouldRefresh(IsAuthError(r.status, r), TRUE,
                                  token_refresh_callback[c], refresh_in_progress[c])
           THEN /\ calls' = [calls EXCEPT ![t].pc = "done", ![t].first = r,
                                ![t].response = r,
                                ![t].outcome = FinalOutcome(r.status, r)]
                /\ UNCHANGED <<api_token, refresh_in_progress>>
           ELSE IF callback.kind = "raise"
           THEN /\ calls' = [calls EXCEPT ![t].pc = "done", ![t].first = r,
                                ![t].response = r,
                                ![t].refreshes = calls[t].refreshes + 1,
                                ![t].refresh = "ValueError",
                                ![t].outcome = RefreshHandler("ValueError")]
                /\ refresh_in_progress' =
                      [refresh_in_progress EXCEPT
                          ![c] = FinallyRefreshInProgress("ValueError")]
                /\ UNCHANGED api_token
           ELSE IF callback.kind = "return"
           THEN /\ calls' = [calls EXCEPT ![t].pc = "retry", ![t].first = r,
                                ![t].response = r,
                                ![t].refreshes = calls[t].refreshes + 1,
                                ![t].refresh = Returned,
                                ![t].new_token = callback.access_token,
                                ![t].requests = calls[t].requests + 1,
                                ![t].retry_headers = callback.access_token]
                /\ refresh_in_progress' = [refresh_in_progress EXCEPT ![c] = TRUE]
                /\ api_token' =
                      [api_token EXCEPT
                          ![c] = RefreshedApiToken(@, callback.access_token)]
           ELSE /\ calls' = [calls EXCEPT ![t].pc = "refresh", ![t].first = r,
                                ![t].response = r,
                                ![t].refreshes = calls[t].refreshes + 1]
                /\ refresh_in_progress' = [refresh_in_progress EXCEPT ![c] = TRUE]
                /\ UNCHANGED api_token
    /\ UNCHANGED <<token_refresh_callback, hostVars, sysVars>>

\* api.py lines 632-644 with oauth.py lines 94-108 and 54: the token endpoint
\* answers with new_token; async_refresh_token stores it in the entry, the
\* callback returns its access token and the retry is sent.
ApiRefreshReturns(t, new_token) ==
    /\ calls[t].pc = "refresh"
    /\ LET c == calls[t].client
       IN  /\ api_token' =
                 [api_token EXCEPT
                     ![c] = RefreshedApiToken(@, new_token.access_token)]
           /\ entry' = async_refresh_token(entry, new_token)
           /\ setup' = async_update_entry(setup, entry' # entry)
           /\ calls' = [calls EXCEPT ![t].pc = "retry",
                           ![t].new_token = new_token.access_token,
                           ![t].requests = calls[t].requests + 1,
                           ![t].retry_headers = new_token.access_token,
                           ![t].refresh = Returned]
    /\ UNCHANGED <<token_refresh_callback, refresh_in_progress, flow, method_call,
                   service_call, sysVars>>

\* api.py lines 632, 647-651 with oauth.py lines 94-99: the token endpoint
\* fails, or the timeout expires.
ApiRefreshRaises(t, exc) ==
    /\ calls[t].pc = "refresh"
    /\ refresh_in_progress' =
          [refresh_in_progress EXCEPT
              ![calls[t].client] = FinallyRefreshInProgress(exc)]
    /\ calls' = [calls EXCEPT ![t].pc = "done", ![t].outcome = RefreshHandler(exc),
                    ![t].refresh = exc]
    /\ UNCHANGED <<api_token, token_refresh_callback, hostVars, sysVars>>

\* lines 639-651 and 653-715: the answer to the retried request.
ApiRetryResponse(t, r) ==
    /\ calls[t].pc = "retry"
    /\ refresh_in_progress' =
          [refresh_in_progress EXCEPT
              ![calls[t].client] = FinallyRefreshInProgress(Raised(r))]
    /\ calls' = [calls EXCEPT ![t].pc = "done", ![t].response = r,
                    ![t].outcome =
                        IF Raised(r) # None THEN RefreshHandler(Raised(r))
                        ELSE FinalOutcome(r.status, r)]
    /\ UNCHANGED <<api_token, token_refresh_callback, hostVars, sysVars>>

\* The call has returned or raised: the frame is gone.
ApiReturn(t) ==
    /\ calls[t].pc = "done"
    /\ calls' = [calls EXCEPT ![t] = IdleCall]
    /\ UNCHANGED <<api_token, token_refresh_callback, refresh_in_progress>>
    /\ UNCHANGED <<hostVars, sysVars>>

\* A finished cycle, to-do call or service call is observed before anything
\* else runs.
Busy == cycle.pc = "done" \/ todo_call.pc = "done" \/ service_call.pc = "done"

\* __init__.py lines 154-199: async_setup_entry up to its first await on an
\* entry that was set up before: the platforms of the old setup are unloaded
\* (lines 161-162), and a client and a coordinator are built again.  What is
\* left of the old ones goes on: a call on the old client, and a to-do call
\* of a removed entity.
async_setup_entry ==
    /\ setup.client < MaxClients
    /\ LET c == setup.client + 1
       IN  /\ setup' = [FirstRefresh EXCEPT !.client = c]
           /\ api_token' = [api_token EXCEPT ![c] = SetupApiToken(entry)]
           /\ token_refresh_callback' =
                 [token_refresh_callback EXCEPT
                     ![c] = SetupTokenRefreshCallback(entry)]
           /\ refresh_in_progress' = [refresh_in_progress EXCEPT ![c] = FALSE]
    /\ data' = <<>>
    /\ cycle' = IdleCycle
    /\ refresh_requested' = FALSE
    /\ UNCHANGED <<calls, entry, flow, method_call, service_call, team_states,
                   issues, now, todo_call, mutated>>

\* __init__.py lines 215-221: the scheduled listener reloads the entry: the
\* host unloads it and sets it up again.
ReloadEntry ==
    /\ setup.reload
    /\ async_setup_entry

\* __init__.py lines 207-212: the host unloads the loaded entry.  The
\* platforms are unloaded, which removes the to-do entities; the client and
\* the coordinator stay in entry.runtime_data.  The update listener is
\* removed with the entry's unload callbacks (line 202); a reload that is
\* already scheduled stays scheduled.
async_unload_entry ==
    /\ ~Busy
    /\ setup.pc = "loaded"
    /\ setup' = [setup EXCEPT !.pc = "unloaded", !.entities = <<>>]
    /\ UNCHANGED <<apiVars, entry, flow, method_call, service_call, sysVars>>

\* The host sets up an entry that it has unloaded.
SetupEntry ==
    /\ setup.pc = "unloaded"
    /\ ~setup.reload
    /\ async_setup_entry

\* async_setup_entry (__init__.py lines 154-204) has built the client with
\* __init__ (api.py lines 60-70) and awaits the first refresh, or has
\* returned on an empty tracker; no call is running.
InitApi ==
    /\ entry \in Entries
    /\ setup \in {FirstRefresh, Loaded}
    /\ flow = NoFlow
    /\ method_call = IdleMethodCall
    /\ service_call = IdleServiceCall
    /\ api_token = [c \in Clients |-> IF c = 1 THEN SetupApiToken(entry)
                                      ELSE NoApiToken]
    /\ token_refresh_callback =
          [c \in Clients |-> c = 1 /\ SetupTokenRefreshCallback(entry)]
    /\ refresh_in_progress = [c \in Clients |-> FALSE]
    /\ calls = [t \in Tasks |-> IdleCall]
    /\ team_states = NoTeamStatesConfig
    /\ issues = <<>>
    /\ now = 0
    /\ data = IF setup.pc = "loaded" THEN EmptySnapshot(teams) ELSE <<>>
    /\ cycle = IdleCycle
    /\ refresh_requested = FALSE
    /\ todo_call = IdleTodoCall
    /\ mutated = NoMutation

\* One call at a time, any response.
ApiStartAlone(t, c) ==
    /\ \A u \in Tasks \ {t} : calls[u].pc = "idle"
    /\ ApiStart(t, c)

NextApi ==
    \/ \E t \in Tasks, c \in Clients : ApiStartAlone(t, c)
    \/ \E t \in Tasks, r \in Responses, time \in Times : ApiFirstResponse(t, r, time)
    \/ \E t \in Tasks, new_token \in NewTokens : ApiRefreshReturns(t, new_token)
    \/ \E t \in Tasks, exc \in {"Exception", Timeout} : ApiRefreshRaises(t, exc)
    \/ \E t \in Tasks, r \in Responses : ApiRetryResponse(t, r)
    \/ \E t \in Tasks : ApiReturn(t)
    \/ ReloadEntry
    \/ async_unload_entry
    \/ SetupEntry

SpecApi == InitApi /\ [][NextApi]_vars

\* The coordinator's fetch and a to-do mutation overlap on the one client.
NextApiOverlap ==
    \/ \E t \in Tasks, c \in Clients : ApiStart(t, c)
    \/ \E t \in Tasks, r \in CoreResponses, time \in Times :
          ApiFirstResponse(t, r, time)
    \/ \E t \in Tasks, new_token \in NewTokens : ApiRefreshReturns(t, new_token)
    \/ \E t \in Tasks, exc \in {"Exception", Timeout} : ApiRefreshRaises(t, exc)
    \/ \E t \in Tasks, r \in CoreResponses : ApiRetryResponse(t, r)
    \/ \E t \in Tasks : ApiReturn(t)
    \/ ReloadEntry
    \/ async_unload_entry
    \/ SetupEntry

SpecApiOverlap == InitApi /\ [][NextApiOverlap]_vars

(***************************************************************************)
(* C1: every call through _graphql_query/_api_wrapper sends at most two    *)
(* HTTP requests and invokes the refresh callback at most once; a second   *)
(* request has been sent only if the first response was an authentication  *)
(* error and the callback returned a token; with no callback configured a  *)
(* call sends exactly one request.                                         *)
(***************************************************************************)
FirstWasAuthError(c) ==
    /\ c.first.kind = "response"
    /\ c.first.json
    /\ \/ c.first.status \in {401, 403}
       \/ /\ c.first.status >= 400
          /\ \E i \in 1..Len(c.first.errors) :
                 \/ c.first.errors[i].statusCode \in {401, 403}
                 \/ "unauthorized" \in c.first.errors[i].message

C1_AtMostOneRetry ==
    \A t \in Tasks :
        LET c == calls[t] IN
        /\ c.requests <= 2
        /\ c.refreshes <= 1
        /\ c.requests = 2 =>
              /\ FirstWasAuthError(c)
              /\ c.refreshes = 1
              /\ c.new_token \in Tokens
        /\ (c.pc # "idle" /\ ~token_refresh_callback[c.client]) =>
              (c.requests = 1 /\ c.refreshes = 0)

\* A call that was retried after a successful refresh has finished.
C1_Witness ==
    \E t \in Tasks :
        /\ calls[t].pc = "done"
        /\ calls[t].requests = 2
        /\ calls[t].refreshes = 1


(***************************************************************************)
(* The configuration, the remote tracker and the clock.                    *)
(***************************************************************************)
MaxIssues == 1     \* issues of the remote tracker where the coordinator runs
MaxTodoIssues == 2 \* issues of the remote tracker where only the entity runs
MaxNow == 8        \* the clock stops at this day
MaxUids == 2       \* uids in one async_delete_todo_items call
MaxSyncUids == 1   \* the same where the whole integration runs

COMPLETED_LOOKBACK_DAYS == 7

States == {"s1", "s2", "s3", "s4"} \* workflow state ids

DisjointConfig ==
    [todo_states |-> <<"s1", "s2">>, completed_state |-> "s3",
     removed_state |-> "s4"]
\* The team-state form does not compare the buckets with each other.
OverlappingConfig ==
    [todo_states |-> <<"s2", "s3">>, completed_state |-> "s3",
     removed_state |-> "s2"]
TeamStatesChoices ==
    { [t \in Teams |-> DisjointConfig],
      [t \in Teams |-> IF t = "t1" THEN OverlappingConfig ELSE DisjointConfig],
      [t \in Teams |-> IF t = "t1" THEN NoTeamConfig ELSE DisjointConfig] }

\* What Python treats as true in "if x:" / "if not x:": a string or None, a list.
Truthy(x) == x # None /\ x # ""
TruthyList(seq) == Len(seq) > 0

InSeq(x, seq) == \E k \in 1..Len(seq) : seq[k] = x

Disjoint(cfg) ==
    /\ ~InSeq(cfg.completed_state, cfg.todo_states)
    /\ ~InSeq(cfg.removed_state, cfg.todo_states)
    /\ cfg.completed_state # cfg.removed_state

\* A filter that leaves the workflow states out.
async_get_issues_in_any_state(remote, team_id, state_ids, updated_since) ==
    LET Match(i) ==
            /\ remote[i].team = team_id
            /\ \A d \in updated_since : remote[i].updatedAt >= d
    IN  LET ids == SelectSeq([i \in 1..Len(remote) |-> i], Match)
        IN  [k \in 1..Len(ids) |-> [id |-> ids[k]]]

\* A filter that leaves the update time out.
async_get_issues_of_any_age(remote, team_id, state_ids, updated_since) ==
    LET Match(i) ==
            /\ remote[i].team = team_id
            /\ InSeq(remote[i].state, state_ids)
    IN  LET ids == SelectSeq([i \in 1..Len(remote) |-> i], Match)
        IN  [k \in 1..Len(ids) |-> [id |-> ids[k]]]

\* The remote GraphQL filter of async_get_issues (api.py lines 190-195 and
\* 220-224): the issues of the team in one of the states and, when
\* updated_since is given, updated at or after it.  updated_since is {} for
\* None and {d} for the day d.  Nodes come in id order.
async_get_issues(remote, team_id, state_ids, updated_since) ==
    LET Match(i) ==
            /\ remote[i].team = team_id
            /\ InSeq(remote[i].state, state_ids)
            /\ \A d \in updated_since : remote[i].updatedAt >= d
    IN  LET ids == SelectSeq([i \in 1..Len(remote) |-> i], Match)
        IN  [k \in 1..Len(ids) |-> [id |-> ids[k]]]

\* The remote issueUpdate mutation of async_update_issue (api.py lines
\* 273-276, 298-322) for a state change; state_id None leaves the state.
issueUpdate(remote, issue_id, state_id, today) ==
    [remote EXCEPT ![issue_id] =
        [@ EXCEPT !.state = IF state_id = None THEN @ ELSE state_id,
                  !.updatedAt = today]]

\* The remote issueCreate mutation of async_create_issue (api.py 364-368).
issueCreate(remote, team_id, state_id, today) ==
    Append(remote, [team |-> team_id, state |-> state_id, updatedAt |-> today])

\* What an API method of the client ends with: it returns, or raises one of
\* the exception classes of api.py lines 19-32.
ApiOutcomes == {Returned, AuthenticationError, CommunicationError, ApiClientError}

(***************************************************************************)
(* coordinator.py: _async_update_data.  The cycle frame:                   *)
(*   pc        "idle", "todo" (before line 51 for teams[idx]),             *)
(*             "completed" (before line 66), "done" (returned or raised)   *)
(*   teams, team_states  the locals of lines 31-32                         *)
(*   fetches   the calls of client.async_get_issues made so far            *)
(*   previous  coordinator.data as it was when the cycle ended             *)
(***************************************************************************)
\* dict.get(team_id, {}) on a snapshot, with the .get("todo", []) and
\* .get("completed", []) that follow it; a snapshot is the list of its
\* entries in insertion order.
Get(snapshot, team_id) ==
    IF \E k \in 1..Len(snapshot) : snapshot[k].team = team_id
    THEN LET k == CHOOSE k \in 1..Len(snapshot) : snapshot[k].team = team_id
         IN  [todo |-> snapshot[k].todo, completed |-> snapshot[k].completed]
    ELSE [todo |-> <<>>, completed |-> <<>>]

\* A coordinator that merges: the buckets of a team start from the cached ones.
PreviousTeamData == Get(data, cycle.teams[cycle.idx])

\* lines 45-48: the buckets of a team start empty in every cycle.
EmptyTeamData == [todo |-> <<>>, completed |-> <<>>]

\* A loop that stays at the team it is at.
SameIndex(idx) == idx

\* line 40: "for team_id in teams" goes on to the next team.
NextIndex(idx) == idx + 1

\* lines 84-87: the handlers around the whole cycle.
CycleHandler(exception) ==
    IF exception = AuthenticationError THEN "ConfigEntryAuthFailed"
    ELSE IF IsApiClientError(exception) THEN "UpdateFailed"
    ELSE exception

\* No handler around the fetches: their errors reach lines 84-87.
FetchHandlerCatchesNothing(exception) == FALSE

\* lines 58 and 74: the handlers around each fetch.
FetchHandlerCatches(exception) == IsApiClientError(exception)

\* The issueCreate requests that are built or sent and not answered.
PendingCreates ==
    (IF todo_call.pc = "request" /\ todo_call.op = "create" THEN 1 ELSE 0)
    + (IF service_call.pc \in {"team", "state", "request"} THEN 1 ELSE 0)

\* lines 29-40: a cycle starts: the first refresh of async_setup_entry
\* (__init__.py line 199), or a cycle of the loaded entry, on the timer or on
\* a requested refresh.
CycleStart ==
    /\ ~Busy
    /\ cycle.pc = "idle"
    /\ setup.pc \in {"first_refresh", "loaded"}
    /\ cycle' = [IdleCycle EXCEPT !.pc = IF TruthyList(entry.teams) THEN "todo"
                                         ELSE "done",
                    !.idx = 1,
                    !.updated_since = now - COMPLETED_LOOKBACK_DAYS,
                    !.teams = entry.teams, !.team_states = team_states,
                    !.previous = IF TruthyList(entry.teams) THEN <<>> ELSE data]
    /\ data' = IF TruthyList(entry.teams) THEN data ELSE <<>>
    /\ refresh_requested' = FALSE
    /\ mutated' = IF mutated.kind = "none" THEN mutated
                  ELSE [mutated EXCEPT !.followed = TRUE]
    /\ UNCHANGED <<apiVars, hostVars, team_states, issues, now, todo_call>>

\* lines 41-63: the todo fetch of teams[idx].
FetchTodo(outcome) ==
    /\ ~Busy
    /\ cycle.pc = "todo"
    /\ LET team_id == cycle.teams[cycle.idx]
           todo_states == cycle.team_states[team_id].todo_states
           nodes == async_get_issues(issues, team_id, todo_states, {})
           fetch == [team |-> team_id, bucket |-> "todo", state_ids |-> todo_states,
                     updated_since |-> {}, outcome |-> outcome,
                     nodes |-> IF outcome = Returned THEN nodes ELSE <<>>]
           team_data == EmptyTeamData
       IN  IF ~TruthyList(todo_states)
           THEN cycle' = [cycle EXCEPT !.pc = "completed",
                             !.team_data = team_data]
           ELSE IF outcome = Returned
           THEN cycle' = [cycle EXCEPT !.pc = "completed",
                             !.team_data = [team_data EXCEPT !.todo = nodes],
                             !.fetches = Append(@, fetch)]
           ELSE IF FetchHandlerCatches(outcome)
           THEN cycle' = [cycle EXCEPT !.pc = "completed",
                             !.team_data = team_data,
                             !.fetches = Append(@, fetch)]
           ELSE cycle' = [cycle EXCEPT !.pc = "done",
                             !.fetches = Append(@, fetch),
                             !.raised = CycleHandler(outcome),
                             !.previous = data]
    /\ UNCHANGED <<apiVars, hostVars, team_states, issues, now, data,
                   refresh_requested, todo_call, mutated>>

\* lines 65-83: the completed fetch of teams[idx], result[team_id] = team_data,
\* and the next team or "return result".  The host keeps what a cycle returns
\* as coordinator.data and keeps the old data when the cycle raises.
FetchCompleted(outcome) ==
    /\ ~Busy
    /\ cycle.pc = "completed"
    /\ LET team_id == cycle.teams[cycle.idx]
           completed_state == cycle.team_states[team_id].completed_state
           updated_since == {cycle.updated_since}
           nodes == async_get_issues(issues, team_id, <<completed_state>>,
                                     updated_since)
           fetch == [team |-> team_id, bucket |-> "completed",
                     state_ids |-> <<completed_state>>,
                     updated_since |-> updated_since, outcome |-> outcome,
                     nodes |-> IF outcome = Returned THEN nodes ELSE <<>>]
           called == Truthy(completed_state)
           team_data == IF called /\ outcome = Returned
                        THEN [cycle.team_data EXCEPT !.completed = nodes]
                        ELSE cycle.team_data
           fetches == IF called THEN Append(cycle.fetches, fetch)
                      ELSE cycle.fetches
           result == Append(cycle.result,
                            [team |-> team_id, todo |-> team_data.todo,
                             completed |-> team_data.completed])
       IN  IF called /\ outcome # Returned /\ ~FetchHandlerCatches(outcome)
           THEN /\ cycle' = [cycle EXCEPT !.pc = "done", !.fetches = fetches,
                                !.raised = CycleHandler(outcome),
                                !.previous = data]
                /\ data' = data
           ELSE IF cycle.idx < Len(cycle.teams)
           THEN /\ cycle' = [cycle EXCEPT !.pc = "todo", !.idx = NextIndex(@),
                                !.result = result,
                                !.team_data = IdleCycle.team_data,
                                !.fetches = fetches]
                /\ data' = data
           ELSE /\ cycle' = [cycle EXCEPT !.pc = "done", !.result = result,
                                !.team_data = team_data, !.fetches = fetches,
                                !.previous = data]
                /\ data' = result
    /\ UNCHANGED <<apiVars, hostVars, team_states, issues, now,
                   refresh_requested, todo_call, mutated>>

\* The frame of the finished cycle is gone.  __init__.py lines 199-201: when
\* it was the first refresh, async_setup_entry goes on to forward the
\* platforms, or the setup ends with the exception of the cycle.
CycleEnd ==
    /\ cycle.pc = "done"
    /\ cycle' = IdleCycle
    /\ setup' = IF setup.pc # "first_refresh" THEN setup
                ELSE IF cycle.raised = None THEN [setup EXCEPT !.pc = "forward"]
                ELSE [setup EXCEPT !.pc = "not_ready"]
    /\ UNCHANGED <<apiVars, entry, flow, method_call, service_call, team_states,
                   issues, now, data, refresh_requested, todo_call, mutated>>

\* __init__.py line 201 with todo.py lines 27-38: the host calls the
\* platform, which reads the teams of the entry and awaits async_get_teams.
PlatformStart ==
    /\ ~Busy
    /\ setup.pc = "forward"
    /\ setup' = [setup EXCEPT !.pc = "platform", !.selected_teams = entry.teams]
    /\ UNCHANGED <<apiVars, entry, flow, method_call, service_call, sysVars>>

\* todo.py lines 38-52 with __init__.py lines 201-204: async_get_teams is
\* answered.  The platform adds an entity for each team it read at line 33
\* (named by what async_get_teams returned, or by the team id when it raised
\* an error of the client), the update listener is registered and
\* async_setup_entry returns True.
PlatformSetup(outcome) ==
    /\ ~Busy
    /\ setup.pc = "platform"
    /\ outcome = Returned \/ IsApiClientError(outcome)
    /\ setup' = [setup EXCEPT !.pc = "loaded", !.entities = setup.selected_teams]
    /\ UNCHANGED <<apiVars, entry, flow, method_call, service_call, sysVars>>

(***************************************************************************)
(* config_flow.py: the last call of async_step_options_team_states of      *)
(* LinearOptionsFlowHandler, with the fields of the handler as they are    *)
(* after the calls before it.                                              *)
(***************************************************************************)
\* lines 519-522 and 558-562: the configurations of the entry, with those of
\* the selected teams replaced by what was submitted for them.
OptionsTeamStatesConfig(existing_states, selected_teams, user_input) ==
    [t \in Teams |-> IF InSeq(t, selected_teams) THEN user_input
                     ELSE existing_states[t]]

\* lines 583-589: the data of the entry with the teams replaced, and the
\* api_token key, when the entry has it, set to the token of the handler.
OptionsEntryData(e, selected_teams, token) ==
    [e EXCEPT !.teams = selected_teams,
              !.api_token = IF e.api_token # {} THEN token ELSE @]

\* What the handler can hold when the last form is submitted.
OptionsInputs ==
    { [selected_teams |-> <<"t2">>,
       user_input |-> [todo_states |-> <<"s2">>, completed_state |-> "s3",
                       removed_state |-> "s4"]] }

\* The reloads that have been made or scheduled.
Reloads == (setup.client - 1) + (IF setup.reload THEN 1 ELSE 0)

\* lines 581-592: all teams are configured; the entry is updated.
OptionsUpdateEntry(selected_teams, user_input) ==
    /\ ~Busy
    /\ setup.pc # "none"
    /\ flow = NoFlow
    /\ Reloads < MaxClients - 1
    /\ entry' = OptionsEntryData(entry, selected_teams, entry.api_token)
    /\ team_states' = OptionsTeamStatesConfig(team_states, selected_teams, user_input)
    /\ setup' = async_update_entry(setup, entry' # entry \/ team_states' # team_states)
    /\ mutated' = NoMutation
    /\ UNCHANGED <<apiVars, flow, method_call, service_call, issues, now, data,
                   cycle, refresh_requested, todo_call>>

(***************************************************************************)
(* The environment: other users of the tracker, and time.                  *)
(***************************************************************************)
\* Another user creates an issue.
RemoteCreate(team_id, state_id) ==
    /\ ~Busy
    /\ issues' = issueCreate(issues, team_id, state_id, now)
    /\ mutated' = NoMutation
    /\ UNCHANGED <<apiVars, hostVars, team_states, now, data, cycle,
                   refresh_requested, todo_call>>

\* Another user moves an issue to another workflow state.
RemoteMove(issue_id, state_id) ==
    /\ ~Busy
    /\ issue_id \in 1..Len(issues)
    /\ issues[issue_id].state # state_id
    /\ issues' = issueUpdate(issues, issue_id, state_id, now)
    /\ mutated' = NoMutation
    /\ UNCHANGED <<apiVars, hostVars, team_states, now, data, cycle,
                   refresh_requested, todo_call>>

\* Days pass.  A day is long against a cycle, a to-do call or a service call
\* (each request is under a 10 s timeout, api.py line 600) and against the
\* delay of a requested refresh, of a setup and of a reload, so the clock
\* moves only between them.
Tick(days) ==
    /\ ~Busy
    /\ setup.pc = "loaded"
    /\ ~setup.reload
    /\ cycle.pc = "idle"
    /\ todo_call.pc = "idle"
    /\ service_call.pc = "idle"
    /\ ~refresh_requested
    /\ now' = now + days
    /\ UNCHANGED <<apiVars, hostVars, team_states, issues, data, cycle,
                   refresh_requested, todo_call, mutated>>

(***************************************************************************)
(* todo.py: LinearTodoListEntity.                                          *)
(***************************************************************************)
NEEDS_ACTION == "needs_action"     \* TodoItemStatus
COMPLETED == "completed"

\* lines 62-69: _attr_supported_features; DELETE_TODO_ITEM is commented out.
supported_features ==
    {"CREATE_TODO_ITEM", "UPDATE_TODO_ITEM", "SET_DESCRIPTION_ON_ITEM",
     "SET_DUE_DATE_ON_ITEM"}

\* Who calls a method of the entity: the host, through the services of the
\* to-do platform, which it offers for the supported features only, or other
\* code that holds the entity and calls the method itself.
Host == "host"
Direct == "direct"

\* An entity that reads the first team of the snapshot, whatever its own is.
todo_items_of_first_team(snapshot, team_id) ==
    IF snapshot = <<>> THEN <<>>
    ELSE [k \in 1..Len(snapshot[1].todo) |->
             [uid |-> snapshot[1].todo[k].id, status |-> NEEDS_ACTION]]
         \o [k \in 1..Len(snapshot[1].completed) |->
             [uid |-> snapshot[1].completed[k].id, status |-> COMPLETED]]

\* lines 86-120: the items of the entity of team_id for a cached snapshot.
todo_items(snapshot, team_id) ==
    IF snapshot = <<>> THEN <<>>
    ELSE LET team_data == Get(snapshot, team_id)
             todo_issues == team_data.todo
             completed_issues == team_data.completed
         IN  [k \in 1..Len(todo_issues) |->
                 [uid |-> todo_issues[k].id, status |-> NEEDS_ACTION]]
             \o [k \in 1..Len(completed_issues) |->
                 [uid |-> completed_issues[k].id, status |-> COMPLETED]]

\* A due value of an item: None, a date or a datetime.
NoDue == [type |-> "NoneType", date |-> None, time |-> None]
DueValues ==
    {NoDue, [type |-> "date", date |-> "2026-11-02", time |-> None],
     [type |-> "datetime", date |-> "2026-11-02", time |-> "09:30:00"]}

\* lines 144-163: the date part, as an ISO date string.
format_due_date(due) ==
    IF due.type = "NoneType" THEN None ELSE due.date

\* update_fields: given = FALSE is None; keys are the keys of the dict.
NoUpdateFields == [given |-> FALSE, keys |-> {}, status |-> None]

\* What a call of the entity does to the client, in order: the requests it
\* sends, and the exception it raises itself instead of sending one.
ValueErrorStep == [mutation |-> "ValueError", id |-> 0, teamId |-> None,
                   title |-> None, stateId |-> None, description |-> None,
                   dueDate |-> None]

\* An async_update_issue that leaves out every empty argument.
async_update_issue_if_not_empty(issue_id, state_id, description, due_date) ==
    IF ~Truthy(state_id) /\ ~Truthy(description) /\ ~Truthy(due_date)
    THEN ValueErrorStep
    ELSE [mutation |-> "issueUpdate", id |-> issue_id, teamId |-> None,
          title |-> None,
          stateId |-> IF Truthy(state_id) THEN state_id ELSE None,
          description |-> IF Truthy(description) THEN description ELSE None,
          dueDate |-> IF Truthy(due_date) THEN due_date ELSE None]

\* api.py lines 249-329: async_update_issue sends the fields that are not
\* None, and raises ValueError when all are None.
async_update_issue(issue_id, state_id, description, due_date) ==
    IF state_id = None /\ description = None /\ due_date = None
    THEN ValueErrorStep
    ELSE [mutation |-> "issueUpdate", id |-> issue_id, teamId |-> None,
          title |-> None, stateId |-> state_id, description |-> description,
          dueDate |-> due_date]

\* api.py lines 331-426: async_create_issue sends title, teamId and stateId,
\* and description and dueDate when they are not empty.
async_create_issue(title, team_id, state_id, description, due_date) ==
    [mutation |-> "issueCreate", id |-> 0, teamId |-> team_id, title |-> title,
     stateId |-> state_id,
     description |-> IF Truthy(description) THEN description ELSE None,
     dueDate |-> IF Truthy(due_date) THEN due_date ELSE None]

\* A create that does not look whether a todo state is configured.
CreateStepsUnchecked(cfg, team_id, item) ==
    <<async_create_issue(IF Truthy(item.summary) THEN item.summary ELSE "",
                         team_id,
                         IF TruthyList(cfg.todo_states) THEN cfg.todo_states[1]
                         ELSE "s1",
                         item.description, format_due_date(item.due))>>

\* A create that takes the last todo state for the new issue.
CreateStepsInLastState(cfg, team_id, item) ==
    IF ~TruthyList(cfg.todo_states) THEN <<ValueErrorStep>>
    ELSE <<async_create_issue(IF Truthy(item.summary) THEN item.summary ELSE "",
                              team_id, cfg.todo_states[Len(cfg.todo_states)],
                              item.description, format_due_date(item.due))>>

\* lines 165-185: what async_create_todo_item does before the refresh.
CreateSteps(cfg, team_id, item) ==
    IF ~TruthyList(cfg.todo_states) THEN <<ValueErrorStep>>
    ELSE <<async_create_issue(IF Truthy(item.summary) THEN item.summary ELSE "",
                              team_id, cfg.todo_states[1], item.description,
                              format_due_date(item.due))>>

\* lines 213-218: the status the item is to have.
NewStatus(item, update_fields) ==
    IF update_fields.given /\ "status" \in update_fields.keys
          /\ update_fields.status # None
    THEN update_fields.status
    ELSE item.status

\* A mapping that takes the last todo state for NEEDS_ACTION.
StateForLast(cfg, new_status) ==
    IF new_status = COMPLETED THEN cfg.completed_state
    ELSE IF TruthyList(cfg.todo_states) THEN cfg.todo_states[Len(cfg.todo_states)]
    ELSE None

\* lines 249-256, 276-284, 317-325, 342-351: the workflow state for a status.
StateFor(cfg, new_status) ==
    IF new_status = COMPLETED THEN cfg.completed_state
    ELSE IF TruthyList(cfg.todo_states) THEN cfg.todo_states[1] ELSE None

\* An update that always sends the fields and the state one after the other.
UpdateStepsSeparately(cfg, item, update_fields) ==
    LET description_updated ==
            ~update_fields.given \/ "description" \in update_fields.keys
        due_updated == ~update_fields.given \/ "due" \in update_fields.keys
        new_status == NewStatus(item, update_fields)
        status_changed == new_status \in {COMPLETED, NEEDS_ACTION}
        fields_updated == description_updated \/ due_updated
        description == IF description_updated THEN item.description ELSE None
        due_date == IF due_updated THEN format_due_date(item.due) ELSE None
        state_id == StateFor(cfg, new_status)
    IN  (IF fields_updated
         THEN <<async_update_issue(item.uid, None, description, due_date)>>
         ELSE <<>>)
        \o
        (IF status_changed
         THEN IF ~Truthy(state_id) THEN <<ValueErrorStep>>
              ELSE <<async_update_issue(item.uid, state_id, None, None)>>
         ELSE <<>>)

\* lines 194-364: what async_update_todo_item does before the refresh.
UpdateSteps(cfg, item, update_fields) ==
    LET description_updated ==
            ~update_fields.given \/ "description" \in update_fields.keys
        due_updated == ~update_fields.given \/ "due" \in update_fields.keys
        new_status == NewStatus(item, update_fields)
        status_changed == new_status \in {COMPLETED, NEEDS_ACTION}
        fields_updated == description_updated \/ due_updated
        description == IF description_updated THEN item.description ELSE None
        due_date == IF due_updated THEN format_due_date(item.due) ELSE None
        state_id == StateFor(cfg, new_status)
    IN  IF fields_updated /\ status_changed
        THEN IF ~Truthy(state_id) THEN <<ValueErrorStep>>
             ELSE <<async_update_issue(item.uid, state_id, description, due_date)>>
        ELSE (IF fields_updated
              THEN <<async_update_issue(item.uid, None, description, due_date)>>
              ELSE <<>>)
             \o
             (IF status_changed
              THEN IF ~Truthy(state_id) THEN <<ValueErrorStep>>
                   ELSE <<async_update_issue(item.uid, state_id, None, None)>>
              ELSE <<>>)

\* A delete that walks the uids from the last to the first.
DeleteStepsReversed(cfg, uids) ==
    IF ~Truthy(cfg.removed_state) THEN <<ValueErrorStep>>
    ELSE [k \in 1..Len(uids) |->
             async_update_issue(uids[Len(uids) + 1 - k], cfg.removed_state,
                                None, None)]

\* lines 369-385: what async_delete_todo_items does before the refresh.
DeleteSteps(cfg, uids) ==
    IF ~Truthy(cfg.removed_state) THEN <<ValueErrorStep>>
    ELSE [k \in 1..Len(uids) |->
             async_update_issue(uids[k], cfg.removed_state, None, None)]

\* The remote tracker after it has answered a request with success.
Apply(remote, request, today) ==
    IF request.mutation = "issueCreate"
    THEN issueCreate(remote, request.teamId, request.stateId, today)
    ELSE issueUpdate(remote, request.id, request.stateId, today)

(***************************************************************************)
(* A call of a method of the entity runs up to its next await, and goes on *)
(* when the awaited request is answered.  The frame of the call:           *)
(*   pc        "request" (a request is sent, lines 179, 258, 286, 307,     *)
(*             327, 353, 382), "response" (the tracker has answered it),   *)
(*             "done" (the call has returned or raised)                    *)
(*   cfg       the locals team_config, todo_states, completed_state,       *)
(*             removed_state of lines 168-170, 195-198, 372-374            *)
(*   steps, k  what the call does to the client, and the step it is at     *)
(*   requests  the requests sent so far                                    *)
(*   answers   for each answered request what the tracker answered, and    *)
(*             the tracker before and after                                *)
(*   raised    what the call raised (None: nothing)                        *)
(*   coordinator  the coordinator of the entity, self.coordinator          *)
(*   issue_id, new_status, uids as in the code, summary: item.summary      *)
(***************************************************************************)
\* The call runs on from step k: it sends the next request, raises
\* ValueError, or has nothing left to send.
RunToAwait(frame) ==
    IF frame.k > Len(frame.steps) THEN [frame EXCEPT !.pc = "done"]
    ELSE IF frame.steps[frame.k].mutation = "ValueError"
    THEN [frame EXCEPT !.pc = "done", !.raised = "ValueError"]
    ELSE [frame EXCEPT !.pc = "request",
                       !.requests = Append(@, frame.steps[frame.k])]

\* lines 188, 367, 388: a call that ends without raising has requested a
\* refresh of the coordinator of its entity.
async_request_refresh(frame, requested) ==
    requested \/ (/\ frame.pc = "done"
                  /\ frame.raised = None
                  /\ frame.coordinator = setup.client)

\* The tracker changed by the answers to the requests of the call, and by
\* nothing else since the first of them.
Undisturbed(frame, remote) ==
    /\ \A k \in 2..Len(frame.answers) :
          frame.answers[k].before = frame.answers[k - 1].after
    /\ frame.answers # <<>> => remote = frame.answers[Len(frame.answers)].after

\* The successful mutation that a later refresh is to show.
Mutation(call) ==
    [kind |-> CASE call.op = "create" -> "created"
                [] call.op = "delete" -> "deleted"
                [] call.new_status = COMPLETED -> "completed"
                [] call.new_status = NEEDS_ACTION -> "reopened"
                [] OTHER -> "none",
     ids |-> CASE call.op = "create" -> {Len(call.answers[1].after)}
               [] call.op = "delete" -> {call.uids[k] : k \in 1..Len(call.uids)}
               [] OTHER -> {call.issue_id},
     team |-> call.team, cfg |-> call.cfg, day |-> now, followed |-> FALSE]

\* The mutation of the call is remembered when the call returns, unless
\* somebody else changed the tracker meanwhile; a call that raises before it
\* has sent a request leaves what was remembered, and nothing is remembered
\* while a call awaits.
Remember(frame, remote, remembered) ==
    IF frame.pc # "done" THEN NoMutation
    ELSE IF frame.raised # None THEN remembered
    ELSE IF Mutation(frame).kind # "none" /\ Undisturbed(frame, remote)
    THEN Mutation(frame)
    ELSE NoMutation

\* The first lines of a method of the entity of team_id, up to its first
\* await or to its end.  The host calls the method of an entity of the loaded
\* entry, and only for a feature the entity supports.
TodoCall(caller, feature, op, team_id, issue_id, summary, new_status, uids, steps) ==
    /\ ~Busy
    /\ todo_call.pc = "idle"
    /\ setup.pc = "loaded"
    /\ InSeq(team_id, setup.entities)
    /\ caller = Host => feature \in supported_features
    /\ todo_call' =
          RunToAwait([op |-> op, pc |-> "start", team |-> team_id,
                      cfg |-> team_states[team_id], issue_id |-> issue_id,
                      summary |-> summary, new_status |-> new_status,
                      uids |-> uids, steps |-> steps, k |-> 1,
                      requests |-> <<>>, answers |-> <<>>, raised |-> None,
                      coordinator |-> setup.client])
    /\ refresh_requested' = async_request_refresh(todo_call', refresh_requested)
    /\ mutated' = Remember(todo_call', issues, mutated)
    /\ UNCHANGED <<apiVars, hostVars, team_states, issues, now, data, cycle>>

\* lines 165-188.
async_create_todo_item(caller, team_id, item) ==
    TodoCall(caller, "CREATE_TODO_ITEM", "create", team_id, 0, item.summary,
             item.status, <<>>,
             CreateSteps(team_states[team_id], team_id, item))

\* lines 190-367.  The item is one of this entity's list.
async_update_todo_item(caller, team_id, item, update_fields) ==
    /\ item.uid \in 1..Len(issues)
    /\ issues[item.uid].team = team_id
    /\ TodoCall(caller, "UPDATE_TODO_ITEM", "update", team_id, item.uid, None,
                NewStatus(item, update_fields), <<>>,
                UpdateSteps(team_states[team_id], item, update_fields))

\* lines 369-388.  The uids are of this entity's list.
async_delete_todo_items(caller, team_id, uids) ==
    /\ \A k \in 1..Len(uids) :
          uids[k] \in 1..Len(issues) /\ issues[uids[k]].team = team_id
    /\ TodoCall(caller, "DELETE_TODO_ITEM", "delete", team_id, 0, None, None,
                uids, DeleteSteps(team_states[team_id], uids))

\* The tracker answers the request the call awaits: with success, having
\* made the change, or with what makes the client method raise.
TodoAnswer(outcome) ==
    /\ ~Busy
    /\ todo_call.pc = "request"
    /\ LET request == todo_call.requests[Len(todo_call.requests)]
           after == IF outcome = Returned THEN Apply(issues, request, now)
                    ELSE issues
       IN  /\ issues' = after
           /\ todo_call' =
                 [todo_call EXCEPT !.pc = "response",
                     !.answers = Append(@, [outcome |-> outcome,
                                            before |-> issues, after |-> after])]
           /\ mutated' = NoMutation
    /\ UNCHANGED <<apiVars, hostVars, team_states, now, data, cycle,
                   refresh_requested>>

\* The call is resumed with the answer: the exception of the client method
\* ends it; otherwise it runs on to the next request (line 381), or to the
\* refresh and its end.
TodoResume ==
    /\ ~Busy
    /\ todo_call.pc = "response"
    /\ LET answer == todo_call.answers[Len(todo_call.answers)]
       IN  todo_call' =
              IF answer.outcome # Returned
              THEN [todo_call EXCEPT !.pc = "done", !.raised = answer.outcome]
              ELSE RunToAwait([todo_call EXCEPT !.k = @ + 1])
    /\ refresh_requested' = async_request_refresh(todo_call', refresh_requested)
    /\ mutated' = Remember(todo_call', issues, mutated)
    /\ UNCHANGED <<apiVars, hostVars, team_states, issues, now, data, cycle>>

\* The call has returned or raised: its frame is gone.
TodoReturn ==
    /\ todo_call.pc = "done"
    /\ todo_call' = IdleTodoCall
    /\ UNCHANGED <<apiVars, hostVars, team_states, issues, now, data, cycle,
                   refresh_requested, mutated>>

(***************************************************************************)
(* __init__.py: the service create_issue that async_setup registers        *)
(* (lines 122-150).  The frame of a call of its handler:                   *)
(*   pc        "team" (it awaits the team it looks up, line 92), "state"   *)
(*             (it awaits the workflow state it looks up, api.py line      *)
(*             479), "request" (it awaits the issueCreate, api.py line     *)
(*             569), "done"                                                *)
(*   data      call.data                                                   *)
(*   team_id   the team_id of the handler                                  *)
(*   request   the issueCreate that async_create_issue_advanced sends      *)
(***************************************************************************)
\* str.upper on the identifiers that are given.
Upper(identifier) == IF identifier = "eng" THEN "ENG" ELSE identifier

\* api.py lines 83-91: the team whose key is the identifier in upper case;
\* the tracker has the key ENG for t2.
async_get_team_by_identifier(identifier) ==
    IF Upper(identifier) = "ENG" THEN "t2" ELSE None

\* api.py lines 158-168: the workflow state with this id or this name; None
\* when the team has none.  The tracker names the state s1 Todo.
async_get_state_by_name_or_id(state_name_or_id) ==
    IF state_name_or_id \in States THEN state_name_or_id
    ELSE IF state_name_or_id = "Todo" THEN "s1"
    ELSE None

\* call.data; a key that is absent is None.  No call names an assignee or a
\* label.
ServiceData ==
    { [title |-> "", team_id |-> "t1", team_identifier |-> None,
       state_name_or_id |-> None],
      [title |-> "Buy milk", team_id |-> None, team_identifier |-> None,
       state_name_or_id |-> None],
      [title |-> "Buy milk", team_id |-> "t1", team_identifier |-> "ENG",
       state_name_or_id |-> None],
      [title |-> "Buy milk", team_id |-> "t1", team_identifier |-> None,
       state_name_or_id |-> None],
      [title |-> "Buy milk", team_id |-> None, team_identifier |-> "eng",
       state_name_or_id |-> "Todo"],
      [title |-> "Buy milk", team_id |-> "t1", team_identifier |-> None,
       state_name_or_id |-> "s2"],
      [title |-> "Buy milk", team_id |-> None, team_identifier |-> "OPS",
       state_name_or_id |-> None],
      [title |-> "Buy milk", team_id |-> "t1", team_identifier |-> None,
       state_name_or_id |-> "Nowhere"] }

\* lines 125-137: the schema of the service, which the host applies to
\* call.data before it calls the handler: a title, and not both team keys.
service_schema(call_data) ==
    /\ call_data.title # None
    /\ call_data.team_id = None \/ call_data.team_identifier = None

\* lines 55-65: what the handler raises before it looks for the entry.
ServiceValueError(call_data) ==
    \/ ~Truthy(call_data.title)
    \/ ~Truthy(call_data.team_id) /\ ~Truthy(call_data.team_identifier)
    \/ Truthy(call_data.team_id) /\ Truthy(call_data.team_identifier)

\* api.py lines 428-575: the issueCreate of async_create_issue_advanced for a
\* call without assignee, labels, description and due date: stateId is sent
\* only when a state was asked for.
async_create_issue_advanced(title, team_id, state_id) ==
    [mutation |-> "issueCreate", id |-> 0, teamId |-> team_id, title |-> title,
     stateId |-> state_id, description |-> None, dueDate |-> None]

\* lines 98-107 and api.py lines 428-483: async_create_issue_advanced up to
\* its first await: the lookup of the state that was asked for, or the
\* issueCreate.
CreateIssueAdvanced(frame, team_id) ==
    IF Truthy(frame.data.state_name_or_id)
    THEN [frame EXCEPT !.pc = "state", !.team_id = team_id]
    ELSE [frame EXCEPT !.pc = "request", !.team_id = team_id,
             !.request = async_create_issue_advanced(frame.data.title, team_id,
                                                     None)]

\* Whether the entry has the attribute runtime_data, which lines 77 and 84
\* read.  async_setup_entry sets it at line 188, before the first refresh, and
\* the integration never removes it; the host removes it from an entry it has
\* unloaded, a caller of async_unload_entry alone does not.
HasRuntimeData ==
    CASE setup.pc = "none" -> {FALSE}
      [] setup.pc = "unloaded" -> {TRUE, FALSE}
      [] OTHER -> {TRUE}

\* lines 42-107 and 139-141: the host calls the handler with data that fit
\* the schema; the handler checks call.data (ValueError), looks for the
\* entries of the domain that have runtime_data (ValueError when the domain
\* has no entry, AttributeError at line 77 when the entry lacks the
\* attribute), takes the client of the entry, and runs up to its first await.
ServiceCreateIssue(call_data, has_runtime_data) ==
    /\ ~Busy
    /\ service_call.pc = "idle"
    /\ service_schema(call_data)
    /\ has_runtime_data \in HasRuntimeData
    /\ Len(issues) + PendingCreates < MaxIssues
    /\ LET frame == [pc |-> "done", data |-> call_data, team_id |-> None,
                     raised |-> None, request |-> ValueErrorStep]
       IN  service_call' =
              IF ServiceValueError(call_data) \/ entry = NoEntry
              THEN [frame EXCEPT !.raised = "ValueError"]
              ELSE IF ~has_runtime_data
              THEN [frame EXCEPT !.raised = "AttributeError"]
              ELSE IF Truthy(call_data.team_identifier)
              THEN [frame EXCEPT !.pc = "team"]
              ELSE CreateIssueAdvanced(frame, call_data.team_id)
    /\ UNCHANGED <<apiVars, entry, setup, flow, method_call, sysVars>>

\* lines 91-107: the tracker has answered the lookup of the team.  What the
\* lookup raises leaves the handler as it is, outside the try of line 98; a
\* team that is not found ends the call with HomeAssistantError; otherwise
\* async_create_issue_advanced is called with the id of the team.
ServiceTeamLookup(outcome) ==
    /\ ~Busy
    /\ service_call.pc = "team"
    /\ LET team_id ==
              async_get_team_by_identifier(service_call.data.team_identifier)
       IN  service_call' =
              IF outcome # Returned
              THEN [service_call EXCEPT !.pc = "done", !.raised = outcome]
              ELSE IF team_id = None
              THEN [service_call EXCEPT !.pc = "done",
                                        !.raised = "HomeAssistantError"]
              ELSE CreateIssueAdvanced(service_call, team_id)
    /\ UNCHANGED <<apiVars, entry, setup, flow, method_call, sysVars>>

\* api.py lines 477-483 and 569 with lines 114-119: the tracker has answered
\* the lookup of the state.  A lookup that raises an error of the client, or
\* finds no state, ends the call with HomeAssistantError; otherwise the
\* issueCreate is sent.
ServiceStateLookup(outcome) ==
    /\ ~Busy
    /\ service_call.pc = "state"
    /\ LET state_id ==
              async_get_state_by_name_or_id(service_call.data.state_name_or_id)
       IN  service_call' =
              IF outcome # Returned \/ state_id = None
              THEN [service_call EXCEPT !.pc = "done",
                                        !.raised = "HomeAssistantError"]
              ELSE [service_call EXCEPT !.pc = "request",
                       !.request = async_create_issue_advanced(
                           service_call.data.title, service_call.team_id,
                           state_id)]
    /\ UNCHANGED <<apiVars, entry, setup, flow, method_call, sysVars>>

\* lines 98-119 and api.py lines 569-575: the tracker has answered the
\* issueCreate: with success, having created the issue in the state asked
\* for or in default_state, or with what makes the handler raise
\* HomeAssistantError.  The handler requests no refresh.
ServiceAnswer(outcome, default_state) ==
    /\ ~Busy
    /\ service_call.pc = "request"
    /\ LET request == service_call.request
           state_id == IF request.stateId = None THEN default_state
                       ELSE request.stateId
       IN  IF outcome = Returned
           THEN /\ issues' = issueCreate(issues, request.teamId, state_id, now)
                /\ service_call' = [service_call EXCEPT !.pc = "done"]
                /\ mutated' = NoMutation
           ELSE /\ issues' = issues
                /\ service_call' = [service_call EXCEPT !.pc = "done",
                                       !.raised = "HomeAssistantError"]
                /\ mutated' = mutated
    /\ UNCHANGED <<apiVars, entry, setup, flow, method_call, team_states, now,
                   data, cycle, refresh_requested, todo_call>>

\* The handler has returned or raised: its frame is gone.
ServiceReturn ==
    /\ service_call.pc = "done"
    /\ service_call' = IdleServiceCall
    /\ UNCHANGED <<apiVars, entry, setup, flow, method_call, sysVars>>

(***************************************************************************)
(* The inputs of the to-do calls.                                          *)
(***************************************************************************)
ItemStatuses == {None, NEEDS_ACTION, COMPLETED}
UpdateFieldsChoices ==
    {NoUpdateFields,
     [given |-> TRUE, keys |-> {}, status |-> None],
     [given |-> TRUE, keys |-> {"status"}, status |-> COMPLETED],
     [given |-> TRUE, keys |-> {"status"}, status |-> NEEDS_ACTION],
     [given |-> TRUE, keys |-> {"description"}, status |-> None],
     [given |-> TRUE, keys |-> {"due", "status"}, status |-> COMPLETED]}
NewItems ==
    [uid : {0}, summary : {None, "Buy milk"}, status : {NEEDS_ACTION},
     description : {None, "2 litres"}, due : {NoDue}]
Items(n) ==
    [uid : 1..n, summary : {"Buy milk"}, status : ItemStatuses,
     description : {None, "2 litres"}, due : DueValues]
UidLists(n, m) == UNION {[1..k -> 1..n] : k \in 0..m}

\* The item as the host hands it over, with no update_fields.
PlainItems(n) ==
    [uid : 1..n, summary : {"Buy milk"}, status : {NEEDS_ACTION, COMPLETED},
     description : {None}, due : {NoDue}]

\* async_setup_entry (__init__.py lines 154-196) has built the client and the
\* coordinator for an entry of the setup flow and awaits the first refresh
\* (line 199); the tracker is empty.
InitSystem ==
    /\ entry = ApiKeyEntry(0)
    /\ setup = FirstRefresh
    /\ flow = NoFlow
    /\ method_call = IdleMethodCall
    /\ service_call = IdleServiceCall
    /\ api_token = [c \in Clients |-> IF c = 1 THEN SetupApiToken(entry)
                                      ELSE NoApiToken]
    /\ token_refresh_callback =
          [c \in Clients |-> c = 1 /\ SetupTokenRefreshCallback(entry)]
    /\ refresh_in_progress = [c \in Clients |-> FALSE]
    /\ calls = [t \in Tasks |-> IdleCall]
    /\ team_states \in TeamStatesChoices
    /\ issues = <<>>
    /\ now = 0
    /\ data = <<>>
    /\ cycle = IdleCycle
    /\ refresh_requested = FALSE
    /\ todo_call = IdleTodoCall
    /\ mutated = NoMutation

(***************************************************************************)
(* The to-do entity alone, on a tracker that other users fill.  The        *)
(* methods are called as the host calls them and, async_delete_todo_items  *)
(* included, by code that calls them itself.                               *)
(***************************************************************************)
Callers == {Host, Direct}

\* The host hands over an item with a summary and a status, and no
\* update_fields; other code can call with anything.
CreateCaller(item) == IF item.summary = None THEN Direct ELSE Host
UpdateCaller(item, update_fields) ==
    IF update_fields.given \/ item.status = None THEN Direct ELSE Host

\* async_setup_entry has returned (__init__.py line 204): the first refresh
\* found the tracker empty and the platform has added the entities.
InitTodo ==
    /\ entry = ApiKeyEntry(0)
    /\ setup = Loaded
    /\ flow = NoFlow
    /\ method_call = IdleMethodCall
    /\ service_call = IdleServiceCall
    /\ api_token = [c \in Clients |-> IF c = 1 THEN SetupApiToken(entry)
                                      ELSE NoApiToken]
    /\ token_refresh_callback =
          [c \in Clients |-> c = 1 /\ SetupTokenRefreshCallback(entry)]
    /\ refresh_in_progress = [c \in Clients |-> FALSE]
    /\ calls = [t \in Tasks |-> IdleCall]
    /\ team_states \in TeamStatesChoices
    /\ issues = <<>>
    /\ now = 0
    /\ data = EmptySnapshot(teams)
    /\ cycle = IdleCycle
    /\ refresh_requested = FALSE
    /\ todo_call = IdleTodoCall
    /\ mutated = NoMutation

TodoRemoteCreate ==
    /\ Len(issues) + PendingCreates < MaxTodoIssues
    /\ \E team_id \in Teams, state_id \in States : RemoteCreate(team_id, state_id)

TodoCreate ==
    /\ todo_call.pc = "idle"
    /\ Len(issues) + PendingCreates < MaxTodoIssues
    /\ \E team_id \in Teams, item \in NewItems :
          async_create_todo_item(CreateCaller(item), team_id, item)

TodoUpdate ==
    /\ todo_call.pc = "idle"
    /\ \E team_id \in Teams, item \in Items(MaxTodoIssues),
          update_fields \in UpdateFieldsChoices :
          async_update_todo_item(UpdateCaller(item, update_fields), team_id,
                                 item, update_fields)

\* The host does not make this call; other code can.
TodoDelete ==
    /\ todo_call.pc = "idle"
    /\ \E caller \in Callers, team_id \in Teams, uids \in UidLists(MaxTodoIssues, MaxUids) :
          async_delete_todo_items(caller, team_id, uids)

TodoOptions ==
    \E options \in OptionsInputs :
          OptionsUpdateEntry(options.selected_teams, options.user_input)

NextTodo ==
    \/ TodoRemoteCreate
    \/ TodoCreate
    \/ TodoUpdate
    \/ TodoDelete
    \/ \E outcome \in ApiOutcomes : TodoAnswer(outcome)
    \/ TodoResume
    \/ TodoReturn
    \/ TodoOptions
    \/ async_unload_entry

SpecTodo == InitTodo /\ [][NextTodo]_vars

(***************************************************************************)
(* The coordinator, the other users of the tracker and the clock.          *)
(***************************************************************************)
EnvRemoteCreate ==
    /\ Len(issues) + PendingCreates < MaxIssues
    /\ \E team_id \in Teams, state_id \in States : RemoteCreate(team_id, state_id)

EnvRemoteMove ==
    \E issue_id \in 1..MaxIssues, state_id \in States : RemoteMove(issue_id, state_id)

\* The clock reaches the look-back day, then goes on day by day.
EnvTick ==
    /\ now < MaxNow
    /\ Tick(IF now < COMPLETED_LOOKBACK_DAYS THEN COMPLETED_LOOKBACK_DAYS - now ELSE 1)

NextCoordinator ==
    \/ CycleStart
    \/ \E outcome \in ApiOutcomes : FetchTodo(outcome)
    \/ \E outcome \in ApiOutcomes : FetchCompleted(outcome)
    \/ CycleEnd
    \/ PlatformStart
    \/ \E outcome \in ApiOutcomes : PlatformSetup(outcome)
    \/ \E options \in OptionsInputs :
          OptionsUpdateEntry(options.selected_teams, options.user_input)
    \/ ReloadEntry
    \/ async_unload_entry
    \/ SetupEntry
    \/ EnvRemoteCreate
    \/ EnvRemoteMove
    \/ EnvTick

SpecCoordinator == InitSystem /\ [][NextCoordinator]_vars

(***************************************************************************)
(* The whole integration over the days, for an entry of one team that the  *)
(* options flow replaces by another, with disjoint buckets; the host hands *)
(* over plain items.                                                       *)
(***************************************************************************)
SyncOutcomes == {Returned, CommunicationError}

InitSync ==
    /\ entry = [ApiKeyEntry(0) EXCEPT !.teams = <<"t1">>]
    /\ setup = FirstRefresh
    /\ flow = NoFlow
    /\ method_call = IdleMethodCall
    /\ service_call = IdleServiceCall
    /\ api_token = [c \in Clients |-> IF c = 1 THEN SetupApiToken(entry)
                                      ELSE NoApiToken]
    /\ token_refresh_callback =
          [c \in Clients |-> c = 1 /\ SetupTokenRefreshCallback(entry)]
    /\ refresh_in_progress = [c \in Clients |-> FALSE]
    /\ calls = [t \in Tasks |-> IdleCall]
    /\ team_states = [t \in Teams |-> DisjointConfig]
    /\ issues = <<>>
    /\ now = 0
    /\ data = <<>>
    /\ cycle = IdleCycle
    /\ refresh_requested = FALSE
    /\ todo_call = IdleTodoCall
    /\ mutated = NoMutation

SyncCreate ==
    /\ todo_call.pc = "idle"
    /\ Len(issues) + PendingCreates < MaxIssues
    /\ \E team_id \in Teams, item \in NewItems :
          async_create_todo_item(CreateCaller(item), team_id, item)

SyncUpdate ==
    /\ todo_call.pc = "idle"
    /\ \E team_id \in Teams, item \in PlainItems(MaxIssues) :
          async_update_todo_item(Host, team_id, item, NoUpdateFields)

\* The host does not offer this call; other code can make it.
SyncDelete ==
    /\ todo_call.pc = "idle"
    /\ \E team_id \in Teams, uids \in UidLists(MaxIssues, MaxSyncUids) :
          async_delete_todo_items(Direct, team_id, uids)

\* An entry that the host unloads stays unloaded, unless a reload is scheduled.
Next ==
    \/ CycleStart
    \/ \E outcome \in SyncOutcomes : FetchTodo(outcome)
    \/ \E outcome \in SyncOutcomes : FetchCompleted(outcome)
    \/ CycleEnd
    \/ PlatformStart
    \/ \E outcome \in ApiOutcomes : PlatformSetup(outcome)
    \/ \E options \in OptionsInputs :
          OptionsUpdateEntry(options.selected_teams, options.user_input)
    \/ ReloadEntry
    \/ async_unload_entry
    \/ EnvRemoteCreate
    \/ EnvRemoteMove
    \/ EnvTick
    \/ SyncCreate
    \/ SyncUpdate
    \/ SyncDelete
    \/ \E outcome \in SyncOutcomes : TodoAnswer(outcome)
    \/ TodoResume
    \/ TodoReturn
    \/ \E call_data \in ServiceData, has_runtime_data \in BOOLEAN :
          ServiceCreateIssue(call_data, has_runtime_data)
    \/ \E outcome \in SyncOutcomes : ServiceTeamLookup(outcome)
    \/ \E outcome \in SyncOutcomes : ServiceStateLookup(outcome)
    \/ \E outcome \in SyncOutcomes, default_state \in States :
          ServiceAnswer(outcome, default_state)
    \/ ServiceReturn

Spec == InitSync /\ [][Next]_vars

(***************************************************************************)
(* The list of the entity for a cached snapshot, on its own.               *)
(***************************************************************************)
MaxSnapshotIds == 3    \* issue ids in a cached snapshot

\* The issues belong to the teams in turn.
TeamOf(issue_id) == teams[((issue_id - 1) % Len(teams)) + 1]

\* The lists of distinct issues of a team.
IssueLists(team_id) ==
    LET ids == {i \in 1..MaxSnapshotIds : TeamOf(i) = team_id}
    IN  UNION {{[k \in 1..n |-> [id |-> f[k]]] :
                   f \in {g \in [1..n -> ids] :
                             \A i, j \in 1..n : i # j => g[i] # g[j]}} :
               n \in 0..Cardinality(ids)}

\* What coordinator.data can be: nothing (None, or the empty dict of a cycle
\* over no teams), or an entry for each configured team in order.
Snapshots ==
    {<<>>} \cup
    {[k \in 1..Len(teams) |->
         [team |-> teams[k], todo |-> buckets[k][1], completed |-> buckets[k][2]]] :
       buckets \in [1..Len(teams) ->
                      UNION {IssueLists(t) \X IssueLists(t) : t \in Teams}]}

\* The entry is loaded, and coordinator.data is any value of its type in
\* which each team has its own issues.
InitItems ==
    /\ entry = ApiKeyEntry(0)
    /\ setup = Loaded
    /\ flow = NoFlow
    /\ method_call = IdleMethodCall
    /\ service_call = IdleServiceCall
    /\ api_token = [c \in Clients |-> IF c = 1 THEN SetupApiToken(entry)
                                      ELSE NoApiToken]
    /\ token_refresh_callback =
          [c \in Clients |-> c = 1 /\ SetupTokenRefreshCallback(entry)]
    /\ refresh_in_progress = [c \in Clients |-> FALSE]
    /\ calls = [t \in Tasks |-> IdleCall]
    /\ team_states = [t \in Teams |-> DisjointConfig]
    /\ issues = <<>>
    /\ now = 0
    /\ data \in {snapshot \in Snapshots :
                    \A k \in 1..Len(snapshot) :
                       \A j \in 1..Len(snapshot[k].todo \o snapshot[k].completed) :
                          TeamOf((snapshot[k].todo \o snapshot[k].completed)[j].id)
                              = snapshot[k].team}
    /\ cycle = IdleCycle
    /\ refresh_requested = FALSE
    /\ todo_call = IdleTodoCall
    /\ mutated = NoMutation

\* todo.py lines 86-120: the host reads the todo_items property of an entity.
ReadTodoItems(team_id) ==
    /\ ~Busy
    /\ todo_call.pc = "idle"
    /\ setup.pc = "loaded"
    /\ InSeq(team_id, setup.entities)
    /\ todo_call' = [op |-> "todo_items", pc |-> "done", team |-> team_id,
                     items |-> todo_items(data, team_id)]
    /\ UNCHANGED <<apiVars, hostVars, team_states, issues, now, data, cycle,
                   refresh_requested, mutated>>

NextItems ==
    \/ \E team_id \in Teams : ReadTodoItems(team_id)
    \/ TodoReturn
    \/ async_unload_entry

SpecItems == InitItems /\ [][NextItems]_vars

(***************************************************************************)
(* Properties of the coordinator, under SpecCoordinator.                   *)
(***************************************************************************)
CycleReturned == cycle.pc = "done" /\ cycle.raised = None

\* The fetches of the finished cycle that failed.
FailedFetches == {k \in 1..Len(cycle.fetches) : cycle.fetches[k].outcome # Returned}

\* What the fetch of a bucket of team_id gave in the finished cycle: the nodes
\* it returned; nothing when it failed or was not made.
Fetched(team_id, bucket) ==
    LET ks == {k \in 1..Len(cycle.fetches) :
                  /\ cycle.fetches[k].team = team_id
                  /\ cycle.fetches[k].bucket = bucket
                  /\ cycle.fetches[k].outcome = Returned}
    IN  IF ks = {} THEN <<>> ELSE cycle.fetches[CHOOSE k \in ks : TRUE].nodes

\* C2: a refresh cycle in which an issue fetch failed with an authentication
\* error ends by raising ConfigEntryAuthFailed.
C2_AuthFailureRaisesConfigEntryAuthFailed ==
    (/\ cycle.pc = "done"
     /\ \E k \in FailedFetches : cycle.fetches[k].outcome = AuthenticationError)
    => cycle.raised = "ConfigEntryAuthFailed"

\* C3: a refresh cycle whose first failed issue fetch failed with a
\* communication error or another API error that is no authentication error
\* ends by raising UpdateFailed.
C3_ApiFailureRaisesUpdateFailed ==
    (/\ cycle.pc = "done"
     /\ FailedFetches # {}
     /\ LET first == CHOOSE k \in FailedFetches : \A j \in FailedFetches : k <= j
        IN  cycle.fetches[first].outcome \in {CommunicationError, ApiClientError})
    => cycle.raised = "UpdateFailed"

\* C4: after a refresh cycle that returns, the cached snapshot has, for each
\* team configured when the cycle began, in order, exactly the todo list and the completed list that
\* this cycle's fetches returned (nothing for a fetch that failed or was not
\* made), whatever the snapshot before held.
C4_SnapshotIsWhatTheCycleFetched ==
    CycleReturned =>
        /\ Len(data) = Len(cycle.teams)
        /\ \A k \in 1..Len(cycle.teams) :
              data[k] = [team |-> cycle.teams[k],
                         todo |-> Fetched(cycle.teams[k], "todo"),
                         completed |-> Fetched(cycle.teams[k], "completed")]

\* A cycle returned, one of its fetches failed on a bucket that the snapshot
\* before had issues in, and the new snapshot differs from the one before.
C4_Witness ==
    /\ CycleReturned
    /\ data # cycle.previous
    /\ \E k \in FailedFetches :
          LET f == cycle.fetches[k]
          IN  /\ Get(cycle.previous, f.team)[f.bucket] # <<>>
              /\ Get(data, f.team)[f.bucket] = <<>>
    /\ \E k \in 1..Len(data) : data[k].todo # <<>>

\* C5: when the fetch of a bucket of a team fails in a refresh cycle, the
\* cached data of that team and bucket after the cycle is still the result of
\* the last successful fetch of that bucket.  (A non-empty cached bucket is
\* the result of the fetch of the cycle before, which succeeded.)
C5_FailedBucketKeepsLastResult ==
    CycleReturned =>
        \A k \in FailedFetches :
            LET f == cycle.fetches[k]
            IN  Get(cycle.previous, f.team)[f.bucket] # <<>>
                => Get(data, f.team)[f.bucket] = Get(cycle.previous, f.team)[f.bucket]

(***************************************************************************)
(* Properties of the entity's list, under SpecItems.                       *)
(***************************************************************************)
\* C6: for every cached snapshot, the items of a team's entity are one item
\* per issue of that team's cached todo bucket with status NEEDS_ACTION, then
\* one item per issue of its cached completed bucket with status COMPLETED,
\* each with the issue id as uid, and nothing else; with no cached data there
\* are no items.
C6_ItemsMirrorTheSnapshot ==
    todo_call.op = "todo_items" =>
        LET items == todo_call.items
            own == {k \in 1..Len(data) : data[k].team = todo_call.team}
            todo == IF own = {} THEN <<>> ELSE data[CHOOSE k \in own : TRUE].todo
            completed == IF own = {} THEN <<>>
                         ELSE data[CHOOSE k \in own : TRUE].completed
        IN  /\ Len(items) = Len(todo) + Len(completed)
            /\ \A k \in 1..Len(todo) :
                  items[k] = [uid |-> todo[k].id, status |-> NEEDS_ACTION]
            /\ \A k \in 1..Len(completed) :
                  items[Len(todo) + k] =
                      [uid |-> completed[k].id, status |-> COMPLETED]
            /\ data = <<>> => items = <<>>

\* The list was read for the first team of a snapshot in which that team has
\* two todo issues and a completed one, and the second team has another issue.
C6_Witness ==
    /\ todo_call.op = "todo_items"
    /\ todo_call.team = teams[1]
    /\ Len(data) = Len(teams)
    /\ Len(data[1].todo) = 2
    /\ Len(data[1].completed) = 1
    /\ Len(data[2].todo) = 1
    /\ Len(todo_call.items) = 3

(***************************************************************************)
(* Properties of the to-do entity, under SpecTodo.                         *)
(***************************************************************************)
\* The call has returned: it ended without raising.
CallReturned(call) == call.pc = "done" /\ call.raised = None

\* The configuration of the team of the call in the entry: what the call read
\* in its first lines, unless the options flow has rewritten it since.
ConfigAtCall(call) ==
    IF team_states[call.team] = call.cfg \/ setup.reload \/ setup.pc # "loaded"
    THEN call.cfg ELSE team_states[call.team]

\* C7: an async_update_todo_item call that returns, with resulting status
\* COMPLETED, has set the issue's workflow state to the team's completed_state,
\* and with resulting status NEEDS_ACTION to the team's first todo state,
\* whatever state the issue was in; and no request of such a call names
\* another state.
C7_UpdateSetsTheConfiguredState ==
    (todo_call.op = "update"
        /\ todo_call.new_status \in {COMPLETED, NEEDS_ACTION}) =>
        LET cfg == todo_call.cfg
            expected == IF todo_call.new_status = COMPLETED
                        THEN cfg.completed_state
                        ELSE IF Len(cfg.todo_states) > 0
                        THEN cfg.todo_states[1] ELSE None
        IN  /\ cfg = ConfigAtCall(todo_call)
            /\ \A k \in 1..Len(todo_call.requests) :
                  todo_call.requests[k].stateId = expected
            /\ CallReturned(todo_call) =>
                  /\ expected # None
                  /\ Len(todo_call.answers) = 1
                  /\ todo_call.answers[1].after[todo_call.issue_id].state = expected
                  /\ issues[todo_call.issue_id].state = expected

\* A returned call has completed an issue that was in another state than the
\* completed one, and not in the first todo state.
C7_Witness ==
    /\ todo_call.op = "update"
    /\ CallReturned(todo_call)
    /\ todo_call.new_status = COMPLETED
    /\ LET cfg == todo_call.cfg
           was == todo_call.answers[1].before[todo_call.issue_id].state
       IN  /\ was # cfg.completed_state
           /\ was # cfg.todo_states[1]
           /\ issues[todo_call.issue_id].state = cfg.completed_state

\* C8: an async_create_todo_item call sends at most one request; one that
\* returns has sent one issueCreate with the entity's team, the team's first
\* todo state and the item's summary as title (the empty string when the item
\* has none), and the tracker has exactly one issue more, in that team and
\* state, with the others as they were.
C8_CreateMakesOneIssue ==
    todo_call.op = "create" =>
        /\ Len(todo_call.requests) <= 1
        /\ CallReturned(todo_call) =>
              LET cfg == todo_call.cfg
                  before == todo_call.answers[1].before
                  after == todo_call.answers[1].after
                  n == Len(before)
                  request == todo_call.requests[1]
              IN  /\ cfg = ConfigAtCall(todo_call)
                  /\ Len(todo_call.requests) = 1
                  /\ Len(todo_call.answers) = 1
                  /\ request.mutation = "issueCreate"
                  /\ request.teamId = todo_call.team
                  /\ request.stateId = cfg.todo_states[1]
                  /\ request.title = IF todo_call.summary = None THEN ""
                                     ELSE todo_call.summary
                  /\ Len(after) = n + 1
                  /\ \A i \in 1..n : after[i] = before[i]
                  /\ after[n + 1].team = todo_call.team
                  /\ after[n + 1].state = cfg.todo_states[1]
                  /\ \A i \in 1..(n + 1) : issues[i] = after[i]

\* A returned call has added an issue with the summary as title to a tracker
\* that held an issue already, for a team with more than one todo state.
C8_Witness ==
    /\ todo_call.op = "create"
    /\ CallReturned(todo_call)
    /\ todo_call.summary = "Buy milk"
    /\ todo_call.requests[1].title = "Buy milk"
    /\ Len(todo_call.answers[1].before) = 1
    /\ Len(issues) = 2
    /\ Len(todo_call.cfg.todo_states) > 1

\* C9: an async_delete_todo_items call sends, for the uids in the order given,
\* one issueUpdate each that names the team's removed_state and nothing else;
\* when it returns every issue given is in the removed_state; no issue it sent
\* no request for is changed, and no issue is deleted remotely.
C9_DeleteMovesToTheRemovedState ==
    todo_call.op = "delete" =>
        LET cfg == todo_call.cfg
            uids == todo_call.uids
            requests == todo_call.requests
            answers == todo_call.answers
        IN  /\ cfg = ConfigAtCall(todo_call)
            /\ Len(requests) <= Len(uids)
            /\ Len(answers) <= Len(requests)
            /\ Len(requests) <= Len(answers) + 1
            /\ \A k \in 1..Len(requests) :
                  /\ requests[k].mutation = "issueUpdate"
                  /\ requests[k].id = uids[k]
                  /\ requests[k].stateId = cfg.removed_state
                  /\ requests[k].description = None
                  /\ requests[k].dueDate = None
            /\ \A k \in 1..Len(answers) :
                  /\ Len(answers[k].after) = Len(answers[k].before)
                  /\ \A i \in 1..Len(answers[k].after) :
                        /\ answers[k].after[i].team = answers[k].before[i].team
                        /\ i # uids[k] => answers[k].after[i] = answers[k].before[i]
                  /\ answers[k].outcome = Returned =>
                        answers[k].after[uids[k]].state = cfg.removed_state
            /\ CallReturned(todo_call) =>
                  /\ Len(requests) = Len(uids)
                  /\ \A k \in 1..Len(uids) :
                        issues[uids[k]].state = cfg.removed_state
            /\ \A k \in 2..Len(answers) :
                  \A i \in 1..Len(answers[k - 1].after) :
                     answers[k].before[i] = answers[k - 1].after[i]
            /\ answers # <<>> =>
                  \A i \in 1..Len(answers[Len(answers)].after) :
                     issues[i] = answers[Len(answers)].after[i]

\* A returned call has moved two issues, given in descending order, that were
\* in other states.
C9_Witness ==
    /\ todo_call.op = "delete"
    /\ CallReturned(todo_call)
    /\ todo_call.uids = <<2, 1>>
    /\ \A i \in {1, 2} :
          /\ todo_call.answers[1].before[i].state # todo_call.cfg.removed_state
          /\ issues[i].state = todo_call.cfg.removed_state

(***************************************************************************)
(* Properties of the whole integration, under Spec.                        *)
(***************************************************************************)
\* The indices of the items with uid issue_id.
ItemsOf(items, issue_id) == {k \in 1..Len(items) : items[k].uid = issue_id}

\* A cycle that began after the last successful mutation, with no remote
\* change by anybody else since, has returned, all its fetches succeeded, it
\* ran for the team with the configuration the call had, and the buckets of
\* the team are pairwise disjoint.
RefreshFollowedMutation ==
    /\ CycleReturned
    /\ mutated.kind # "none"
    /\ mutated.followed
    /\ FailedFetches = {}
    /\ InSeq(mutated.team, cycle.teams)
    /\ cycle.team_states[mutated.team] = mutated.cfg
    /\ Disjoint(mutated.cfg)

\* The cycle began no more than COMPLETED_LOOKBACK_DAYS days after the
\* mutation: the mutation is not older than the cut-off of the cycle.
WithinLookback == mutated.day >= cycle.updated_since

\* What the list of the team of the mutation shows of the mutated issues
\* after the cycle: for each of them the statuses of its items.
Shown(issue_id) ==
    LET items == todo_items(data, mutated.team)
    IN  [k \in ItemsOf(items, issue_id) |-> items[k].status]

\* One item, with this status.
OneItem(shown, status) ==
    /\ Cardinality(DOMAIN shown) = 1
    /\ \A k \in DOMAIN shown : shown[k] = status

\* C10, as the claim states it: with pairwise disjoint state buckets and no
\* other remote change, after a successful to-do mutation followed by a
\* refresh cycle whose fetches succeed, the to-do list of the team shows a
\* created or reopened issue as one NEEDS_ACTION item, a completed issue as
\* one COMPLETED item, and a deleted issue not at all.  It fails for a cycle
\* that begins more than COMPLETED_LOOKBACK_DAYS days after an issue was
\* completed.
C10_RefreshShowsTheMutation ==
    RefreshFollowedMutation =>
        \A issue_id \in mutated.ids :
            CASE mutated.kind \in {"created", "reopened"} ->
                    OneItem(Shown(issue_id), NEEDS_ACTION)
              [] mutated.kind = "completed" ->
                    OneItem(Shown(issue_id), COMPLETED)
              [] mutated.kind = "deleted" -> DOMAIN Shown(issue_id) = {}

\* C10, amended: with pairwise disjoint state buckets, the configuration of
\* the team unchanged and no other remote change, after a successful to-do
\* mutation followed, at any later time, by a refresh cycle whose fetches
\* succeed, the to-do list of the team shows a created or reopened issue as
\* one NEEDS_ACTION item and a deleted issue not at all; it shows a completed
\* issue as one COMPLETED item when the cycle begins no more than
\* COMPLETED_LOOKBACK_DAYS days after the completion, and not at all when it
\* begins later.
C10_RefreshWithinLookbackShowsTheMutation ==
    RefreshFollowedMutation =>
        \A issue_id \in mutated.ids :
            CASE mutated.kind \in {"created", "reopened"} ->
                    OneItem(Shown(issue_id), NEEDS_ACTION)
              [] mutated.kind = "completed" ->
                    IF WithinLookback
                    THEN OneItem(Shown(issue_id), COMPLETED)
                    ELSE DOMAIN Shown(issue_id) = {}
              [] mutated.kind = "deleted" -> DOMAIN Shown(issue_id) = {}

\* A cycle that began exactly COMPLETED_LOOKBACK_DAYS days after an issue was
\* completed, days after the refresh that the call requested, shows the issue
\* as COMPLETED.
C10_Witness ==
    /\ RefreshFollowedMutation
    /\ mutated.kind = "completed"
    /\ mutated.day = cycle.updated_since
    /\ now = mutated.day + COMPLETED_LOOKBACK_DAYS
    /\ \E issue_id \in mutated.ids : OneItem(Shown(issue_id), COMPLETED)

(***************************************************************************)
(* Further properties of the coordinator, under SpecCoordinator.           *)
(***************************************************************************)
\* The place of a fetch in a cycle: the index of its team in the configured
\* list, then todo before completed.
TeamIndex(team_id) ==
    CHOOSE k \in 1..Len(cycle.teams) : cycle.teams[k] = team_id
BucketRank(bucket) == IF bucket = "todo" THEN 1 ELSE 2
Before(team1, rank1, team2, rank2) ==
    team1 < team2 \/ (team1 = team2 /\ rank1 < rank2)

\* C11: within one refresh cycle the fetches are strictly sequential: every
\* fetch made so far has ended before the one the cycle is at is issued, the
\* fetches come team by team in the configured order, for each team the todo
\* fetch before the completed fetch, and at most two per configured team.
C11_FetchesAreSequential ==
    LET fetches == cycle.fetches
        Place(k) == <<TeamIndex(fetches[k].team), BucketRank(fetches[k].bucket)>>
    IN  /\ \A j, k \in 1..Len(fetches) :
              j < k => Before(Place(j)[1], Place(j)[2], Place(k)[1], Place(k)[2])
        /\ \A k \in 1..Len(fetches) :
              /\ fetches[k].outcome \in ApiOutcomes
              /\ cycle.pc \in {"todo", "completed"} =>
                    Before(Place(k)[1], Place(k)[2], cycle.idx, BucketRank(cycle.pc))
        /\ \A t \in Teams :
              Cardinality({k \in 1..Len(fetches) : fetches[k].team = t}) <= 2
        /\ Len(fetches) <= 2 * Len(cycle.teams)

\* A cycle has made both fetches of both teams, the first of them failing.
C11_Witness ==
    /\ cycle.pc = "done"
    /\ Len(cycle.teams) = 2
    /\ Len(cycle.fetches) = 2 * Len(cycle.teams)
    /\ cycle.fetches[1].outcome # Returned
    /\ cycle.fetches[1].bucket = "todo"
    /\ cycle.fetches[2].bucket = "completed"
    /\ cycle.fetches[2].team = cycle.teams[1]
    /\ cycle.fetches[3].team = cycle.teams[2]

(***************************************************************************)
(* Properties of overlapping API calls, under SpecApiOverlap.              *)
(***************************************************************************)
\* The calls that are awaiting the refresh callback.
Refreshing == {t \in Tasks : calls[t].pc = "refresh"}

\* The call's first response passed the check of lines 613-625.
DetectedAuthError(c) ==
    /\ c.first.kind = "response"
    /\ c.first.json
    /\ IsAuthError(c.first.status, c.first)

\* The call ended on its first response although that was detected as an
\* authentication error and a callback is configured: it found
\* _refresh_in_progress set.
FoundRefreshInProgress(c) ==
    /\ c.pc = "done"
    /\ token_refresh_callback[c.client]
    /\ DetectedAuthError(c)
    /\ c.refreshes = 0

\* The refresh callback is running for at most one call at a time, and a call
\* that finds _refresh_in_progress set neither refreshes nor retries.
RefreshIsExclusive ==
    /\ Cardinality(Refreshing) <= 1
    /\ \A t \in Tasks :
          FoundRefreshInProgress(calls[t]) =>
              calls[t].requests = 1 /\ calls[t].refresh = None

\* C12: when two calls on the client overlap and both receive an
\* authentication error, the refresh callback is never running for two calls
\* at the same time, and the call that finds _refresh_in_progress set raises
\* an authentication error without refreshing or retrying.
C12_OverlappingRefreshIsExclusive ==
    /\ RefreshIsExclusive
    /\ \A t \in Tasks :
          FoundRefreshInProgress(calls[t]) =>
              calls[t].outcome = AuthenticationError

\* The calls on the client object c between invoking the refresh callback
\* and the end of their retried request.
InRefreshBlock(c) ==
    {t \in Tasks : calls[t].pc \in {"refresh", "retry"} /\ calls[t].client = c}

\* No API call is in progress: every call is not started, or has returned or
\* raised.
NoCallInProgress == \A t \in Tasks : calls[t].pc \in {"idle", "done"}

\* C13: _refresh_in_progress is true exactly while some call is between
\* invoking the refresh callback and finishing its retried request; whenever
\* no call is in progress the flag is false, whether the refresh succeeded,
\* the callback raised or the retried request raised, so that with a callback
\* configured a later authentication error triggers a new refresh attempt.
C13_FlagOnlyDuringRefresh ==
    \A c \in Clients :
       /\ refresh_in_progress[c] <=> InRefreshBlock(c) # {}
       /\ NoCallInProgress => ~refresh_in_progress[c]
       /\ NoCallInProgress /\ token_refresh_callback[c] =>
              ShouldRefresh(TRUE, TRUE, token_refresh_callback[c],
                            refresh_in_progress[c])

\* A call whose callback returned a token and whose retried request raised
\* has ended, and nothing else is running.
C13_Witness ==
    /\ NoCallInProgress
    /\ \A c \in Clients : ~refresh_in_progress[c]
    /\ \E t \in Tasks :
          /\ calls[t].pc = "done"
          /\ calls[t].refresh = Returned
          /\ Raised(calls[t].response) # None

\* Steps of a call t, read off its frame.  The callback returns at once
\* with the token of the entry, or after it has awaited a new one.
CallbackReturns(t) ==
    calls[t].pc \in {"request", "refresh"} /\ calls'[t].pc = "retry"
CallbackRaises(t) ==
    /\ calls[t].pc \in {"request", "refresh"}
    /\ calls'[t].pc = "done"
    /\ calls'[t].refresh \in {"Exception", "ValueError"}
RequestStarts(t) == calls[t].pc = "idle" /\ calls'[t].pc = "request"

TokenAfterCallback ==
    \A t \in Tasks :
       /\ CallbackReturns(t) =>
             /\ api_token'[calls[t].client] = calls'[t].new_token
             /\ calls'[t].retry_headers = calls'[t].new_token
             /\ calls'[t].requests = 2
       /\ CallbackRaises(t) =>
             /\ calls'[t].outcome = AuthenticationError
             /\ calls'[t].requests = 1
             /\ calls'[t].retry_headers = -1
             /\ api_token' = api_token
       /\ RequestStarts(t) => calls'[t].headers = api_token[calls'[t].client]

\* The stored token of a client object is replaced in this step.
TokenReplaced(c) == api_token'[c] # api_token[c]

\* C14: when the refresh callback returns a token, the stored token becomes
\* that token and the retried request carries it; every later request carries
\* the stored token, which nothing but a returning callback replaces; when
\* the callback raises, the call raises an authentication error, no retry
\* request is sent and the stored token is unchanged.
C14_RefreshedTokenIsStoredAndSent ==
    [][/\ TokenAfterCallback
       /\ \A c \in 1..setup.client :
             TokenReplaced(c) =>
                \E t \in Tasks : CallbackReturns(t) /\ calls[t].client = c]_vars

\* A request is sent with a token other than the one the client was built
\* with, after the call that obtained it has gone.
C14_Witness ==
    /\ \E t \in Tasks : calls[t].pc = "request" /\ calls[t].headers = 1
    /\ \A t \in Tasks : calls[t].pc \in {"idle", "request"}
    /\ \E t \in Tasks : calls[t].pc = "request" /\ api_token[calls[t].client] = 1

(***************************************************************************)
(* Properties of one API call and any response, under SpecApi.             *)
(***************************************************************************)
\* The response is one the final classification (lines 653-713) reports as
\* an authentication error.
ReportedAsAuthError(r) ==
    /\ r.kind = "response"
    /\ r.json
    /\ FinalOutcome(r.status, r) = AuthenticationError

\* C15: whenever the first response of a call is one the client reports as
\* an authentication error (HTTP 401/403, or a GraphQL error naming 401, 403
\* or "unauthorized", at any HTTP status), a refresh callback is configured
\* and no refresh is in progress, the call invokes the refresh callback, and
\* sends one retry when the callback returns, before it raises.
C15_ReportedAuthErrorIsRefreshed ==
    \A t \in Tasks :
       /\ calls[t].pc = "done"
       /\ token_refresh_callback[calls[t].client]
       /\ ReportedAsAuthError(calls[t].first)
       => /\ calls[t].refreshes = 1
          /\ calls[t].refresh = Returned => calls[t].requests = 2

\* C16: a final response (after any retry) with HTTP status 401 or 403 always
\* makes the call raise IntegrationBlueprintApiClientAuthenticationError,
\* whether its body is JSON or not.
C16_Status401Or403RaisesAuthError ==
    \A t \in Tasks :
       /\ calls[t].pc = "done"
       /\ calls[t].response.kind = "response"
       /\ calls[t].response.status \in {HTTP_STATUS_UNAUTHORIZED, HTTP_STATUS_FORBIDDEN}
       => calls[t].outcome = AuthenticationError

\* C17: detection and reporting of authentication errors agree: when the
\* response is classified as an authentication error by the check before the
\* refresh (a GraphQL error whose extensions.statusCode is 401 or 403 on an
\* HTTP status >= 400 included) and the same response comes back after the
\* retry, or no retry is possible, the call raises
\* IntegrationBlueprintApiClientAuthenticationError.
C17_DetectedAuthErrorIsReported ==
    \A t \in Tasks :
       /\ calls[t].pc = "done"
       /\ DetectedAuthError(calls[t])
       /\ calls[t].response = calls[t].first
       /\ calls[t].requests = 2 \/ calls[t].refreshes = 0
       => calls[t].outcome = AuthenticationError

\* C18: every network-level failure or timeout of an HTTP request made by
\* _api_wrapper, the retried request after a successful token refresh
\* included, makes the call raise
\* IntegrationBlueprintApiClientCommunicationError.
C18_NetworkFailureRaisesCommunicationError ==
    \A t \in Tasks :
       /\ calls[t].pc = "done"
       /\ calls[t].response.kind \in {ClientError, Timeout}
       => calls[t].outcome = CommunicationError

\* C20: async_setup_entry gives the client a token refresh callback exactly
\* when the entry data has no api_token key; for an entry that has api_token
\* the client has no callback, so that no call sends a second request or
\* invokes a refresh, an authentication error is raised after exactly one
\* HTTP request, and the stored token stays the entry's api_token.
C20_CallbackOnlyForOAuthEntry ==
    /\ \A c \in 1..setup.client :
          token_refresh_callback[c] <=> entry.api_token = {}
    /\ entry.api_token # {} =>
          /\ \A c \in 1..setup.client :
                /\ ~token_refresh_callback[c]
                /\ api_token[c] = Value(entry.api_token)
                /\ ~refresh_in_progress[c]
          /\ \A t \in Tasks :
                /\ calls[t].requests <= 1
                /\ calls[t].refreshes = 0
                /\ calls[t].outcome = AuthenticationError => calls[t].requests = 1

\* With an API-key entry, a call has raised the authentication error on a
\* response with status 401.
C20_Witness ==
    /\ entry.api_token # {}
    /\ \E t \in Tasks :
          /\ calls[t].pc = "done"
          /\ calls[t].first.kind = "response"
          /\ calls[t].first.status = HTTP_STATUS_UNAUTHORIZED
          /\ calls[t].outcome = AuthenticationError
          /\ calls[t].requests = 1

(***************************************************************************)
(* The setup flow (config_flow.py, BlueprintFlowHandler).  A step handler  *)
(* is called when the host delivers the OAuth result or the user submits a *)
(* form; it runs up to its next await, and goes on when the awaited call   *)
(* of the client is answered.  A dictionary keyed by team is a function on *)
(* Teams whose value for a missing key is NoTeamConfig.  The handler:      *)
(*   step         the step that runs or whose form is shown, "user"        *)
(*                before the first one, "abort", "create_entry"            *)
(*   pc           "idle" (no step is running) or the await the running     *)
(*                step is at: "validate_token" (line 156),                 *)
(*                "oauth_get_teams" (157), "test_token" (110, 416),        *)
(*                "get_teams" (182), "get_states" (242),                   *)
(*                "get_next_states" (287)                                  *)
(*   errors       _errors of the running step, then of the form it showed  *)
(*   data_schema  "empty" for a form shown with vol.Schema({}), else       *)
(*                "fields"                                                 *)
(*   token_input, teams_input, user_input   the argument of the running    *)
(*                step: the token, the teams, the states of a team         *)
(***************************************************************************)
\* lines 39-49: __init__.  _api_token "" and the two None fields are the
\* empty set, teams is whether self._teams is non-empty, team_states the keys
\* of self._team_states.  user_input is NoTeamConfig when the team-state step
\* is called without input, teams_input the empty set when the team step is.
IdleFlow ==
    [step |-> "user", pc |-> "idle", api_token |-> {}, oauth_token |-> {},
     oauth_data |-> {}, teams |-> FALSE, selected_teams |-> <<>>,
     team_states |-> {}, current_team_index |-> 0,
     team_states_config |-> NoTeamStatesConfig, errors |-> {},
     data_schema |-> "fields", token_input |-> {}, teams_input |-> {},
     user_input |-> NoTeamConfig]

\* What the forms can submit.
SelectedTeams == {<<>>, <<"t1">>, <<"t2">>, <<"t1", "t2">>, <<"t2", "t1">>}
TeamStatesInputs ==
    { DisjointConfig, OverlappingConfig,
      [todo_states |-> <<>>, completed_state |-> "s3", removed_state |-> "s4"],
      [todo_states |-> <<"s1">>, completed_state |-> None, removed_state |-> None],
      [todo_states |-> <<"s1">>, completed_state |-> "s3", removed_state |-> "s3"] }

\* A validation that also wants the three buckets disjoint.
TeamStatesErrorsIfNotDisjoint(user_input) ==
    {field \in {"todo_states"} : ~TruthyList(user_input.todo_states)}
    \cup {field \in {"completed_state"} : ~Truthy(user_input.completed_state)}
    \cup {field \in {"removed_state"} : ~Truthy(user_input.removed_state)}
    \cup {field \in {"base"} : ~Disjoint(user_input)}

\* lines 254-265: the validation of a submitted team-state form.
TeamStatesErrors(user_input) ==
    {field \in {"todo_states"} : ~TruthyList(user_input.todo_states)}
    \cup {field \in {"completed_state"} : ~Truthy(user_input.completed_state)}
    \cup {field \in {"removed_state"} : ~Truthy(user_input.removed_state)}

\* The variables of the running integration, which the flow does not touch.
runtimeVars == <<api_token, token_refresh_callback, refresh_in_progress, calls,
                 issues, now, data, cycle, refresh_requested, todo_call, mutated,
                 method_call, service_call>>

\* async_show_form: the step returns the form step_id with these errors; the
\* arguments of the step are gone.
async_show_form(f, step_id, errors, data_schema) ==
    [f EXCEPT !.step = step_id, !.pc = "idle", !.errors = errors,
              !.data_schema = data_schema, !.token_input = {},
              !.teams_input = {}]

\* lines 253-319: async_step_team_states from its validation on, for the
\* handler f that knows the workflow states of the current team: without
\* input it shows the form; a submission with a field missing is shown again
\* with the errors; otherwise it is stored and the index advanced, and then
\* the step awaits the workflow states of the next team, shows the form of
\* the next team, or creates the entry.
TeamStatesValidate(f) ==
    LET current_team_id == f.selected_teams[f.current_team_index + 1]
        errors == TeamStatesErrors(f.user_input)
        stored == [f EXCEPT !.team_states_config[current_team_id] = f.user_input,
                            !.current_team_index = @ + 1]
    IN  IF f.user_input = NoTeamConfig
        THEN async_show_form(f, "team_states", {}, "fields")
        ELSE IF errors # {}
        THEN async_show_form(f, "team_states", errors, "fields")
        ELSE IF stored.current_team_index < Len(stored.selected_teams)
        THEN IF stored.selected_teams[stored.current_team_index + 1]
                   \notin stored.team_states
             THEN [stored EXCEPT !.pc = "get_next_states"]
             ELSE async_show_form(stored, "team_states", {}, "fields")
        ELSE [stored EXCEPT !.step = "create_entry", !.pc = "idle"]

\* lines 222-242: async_step_team_states(user_input) on the handler f, up to
\* its first await: at the first team it empties the stored configuration;
\* it awaits the workflow states of the current team unless it has them.
async_step_team_states(f, user_input) ==
    LET g == [f EXCEPT !.step = "team_states", !.errors = {},
                       !.token_input = {}, !.teams_input = {},
                       !.user_input = user_input,
                       !.team_states_config =
                           IF f.current_team_index = 0 THEN NoTeamStatesConfig
                           ELSE @]
    IN  IF g.selected_teams[g.current_team_index + 1] \notin g.team_states
        THEN [g EXCEPT !.pc = "get_states"]
        ELSE TeamStatesValidate(g)

\* lines 192-220: async_step_teams once the handler f has the teams.
TeamsSelected(f) ==
    IF f.teams_input = {}
    THEN async_show_form(f, "teams", {}, "fields")
    ELSE IF ~TruthyList(Value(f.teams_input))
    THEN async_show_form(f, "teams", {"no_teams_selected"}, "fields")
    ELSE async_step_team_states([f EXCEPT !.selected_teams = Value(f.teams_input)],
                                NoTeamConfig)

\* lines 168-182: async_step_teams on the handler f, with the submitted teams
\* or without input, up to its first await.
async_step_teams(f, teams_input) ==
    LET g == [f EXCEPT !.step = "teams", !.errors = {}, !.token_input = {},
                       !.teams_input = teams_input]
    IN  IF ~g.teams THEN [g EXCEPT !.pc = "get_teams"]
        ELSE TeamsSelected(g)

\* lines 296-316: the data of the entry that the handler f creates.
FlowEntryData(f) ==
    IF f.oauth_token # {} /\ f.oauth_data # {}
    THEN [api_token |-> {}, token |-> f.oauth_data, teams |-> f.selected_teams]
    ELSE [api_token |-> f.api_token, token |-> {}, teams |-> f.selected_teams]

\* The host stores the entry when the step has returned async_create_entry.
FlowResult(f) ==
    /\ flow' = f
    /\ IF f.step = "create_entry"
       THEN /\ entry' = FlowEntryData(f)
            /\ team_states' = f.team_states_config
       ELSE UNCHANGED <<entry, team_states>>
    /\ UNCHANGED <<setup, runtimeVars>>

\* lines 139-156: the host hands the OAuth result to
\* async_oauth_create_entry, which stores it and awaits the validation.
FlowOAuthCreateEntry(access_token, expires_at) ==
    /\ flow.step = "user"
    /\ flow.pc = "idle"
    /\ FlowResult([flow EXCEPT !.pc = "validate_token",
                     !.oauth_data = {OAuthToken(access_token, expires_at)}])

\* lines 156-160: async_validate_token is answered.
FlowOAuthValidateToken(outcome) ==
    /\ flow.step = "user"
    /\ flow.pc = "validate_token"
    /\ FlowResult(IF IsApiClientError(outcome)
                  THEN [flow EXCEPT !.step = "abort", !.pc = "idle",
                                    !.errors = {"oauth_fetch_teams_failed"}]
                  ELSE [flow EXCEPT !.pc = "oauth_get_teams"])

\* lines 157-166: async_get_teams is answered; the teams and the access token
\* are stored and async_step_teams is called without input.
FlowOAuthGetTeams(outcome) ==
    /\ flow.step = "user"
    /\ flow.pc = "oauth_get_teams"
    /\ FlowResult(IF IsApiClientError(outcome)
                  THEN [flow EXCEPT !.step = "abort", !.pc = "idle",
                                    !.errors = {"oauth_fetch_teams_failed"}]
                  ELSE async_step_teams(
                          [flow EXCEPT !.teams = TRUE,
                              !.api_token = {Value(flow.oauth_data).access_token}],
                          {}))

\* lines 102-110: the API-key form is submitted; the step awaits _test_token.
FlowApiKey(token) ==
    /\ flow.step \in {"user", "api_key"}
    /\ flow.pc = "idle"
    /\ FlowResult([flow EXCEPT !.pc = "test_token", !.errors = {},
                               !.token_input = {token}])

\* lines 110-137 and 410-416: _test_token is answered.
FlowTestToken(outcome) ==
    /\ flow.step \in {"user", "api_key"}
    /\ flow.pc = "test_token"
    /\ FlowResult(
          CASE outcome = AuthenticationError ->
                  async_show_form(flow, "api_key", {"auth"}, "fields")
            [] outcome = CommunicationError ->
                  async_show_form(flow, "api_key", {"connection"}, "fields")
            [] outcome = ApiClientError ->
                  async_show_form(flow, "api_key", {"unknown"}, "fields")
            [] OTHER ->
                  async_step_teams([flow EXCEPT !.api_token = flow.token_input],
                                   {}))

\* lines 168-182: the team form is submitted.
FlowTeams(selected) ==
    /\ flow.step = "teams"
    /\ flow.pc = "idle"
    /\ FlowResult(async_step_teams(flow, {selected}))

\* lines 182-220: async_get_teams of async_step_teams is answered.
FlowGetTeams(outcome) ==
    /\ flow.step = "teams"
    /\ flow.pc = "get_teams"
    /\ FlowResult(IF IsApiClientError(outcome)
                  THEN async_show_form(flow, "teams", {"fetch_teams_failed"},
                                       "empty")
                  ELSE TeamsSelected([flow EXCEPT !.teams = TRUE]))

\* lines 222-242 and on: the state form of the current team is submitted.
FlowTeamStates(user_input) ==
    /\ flow.step = "team_states"
    /\ flow.pc = "idle"
    /\ FlowResult(async_step_team_states(flow, user_input))

\* lines 242-319: async_get_workflow_states for the current team is answered.
FlowGetStates(outcome) ==
    /\ flow.step = "team_states"
    /\ flow.pc = "get_states"
    /\ LET current_team_id == flow.selected_teams[flow.current_team_index + 1]
       IN  FlowResult(
              IF IsApiClientError(outcome)
              THEN async_show_form(flow, "team_states", {"fetch_states_failed"},
                                   "empty")
              ELSE TeamStatesValidate(
                      [flow EXCEPT !.team_states = @ \cup {current_team_id}]))

\* lines 287-293: async_get_workflow_states for the next team is answered,
\* after the submission was stored and the index advanced.
FlowGetNextStates(outcome) ==
    /\ flow.step = "team_states"
    /\ flow.pc = "get_next_states"
    /\ LET next_team_id == flow.selected_teams[flow.current_team_index + 1]
       IN  FlowResult(
              IF IsApiClientError(outcome)
              THEN async_show_form(flow, "team_states", {"fetch_states_failed"},
                                   "fields")
              ELSE async_show_form(
                      [flow EXCEPT !.team_states = @ \cup {next_team_id}],
                      "team_states", {}, "fields"))

(***************************************************************************)
(* The options flow (config_flow.py, LinearOptionsFlowHandler) of an entry *)
(* that exists.  The fields of the handler are those of the setup flow     *)
(* without the OAuth ones; its awaits are "options_get_teams" (line 461),  *)
(* "options_get_states" (528) and "options_get_next_states" (573).         *)
(***************************************************************************)
\* lines 422-430: __init__.
IdleOptionsFlow == [IdleFlow EXCEPT !.step = "options_init"]

\* lines 444-452: the token of the entry.
OptionsApiToken(e) ==
    IF e.api_token # {} THEN e.api_token
    ELSE IF e.token # {} THEN {Value(e.token).access_token}
    ELSE {}

\* lines 539-595: async_step_options_team_states from its validation on, for
\* the handler f that knows the workflow states of the current team.
OptionsTeamStatesValidate(f) ==
    LET current_team_id == f.selected_teams[f.current_team_index + 1]
        errors == TeamStatesErrors(f.user_input)
        stored == [f EXCEPT !.team_states_config[current_team_id] = f.user_input,
                            !.current_team_index = @ + 1]
    IN  IF f.user_input = NoTeamConfig
        THEN async_show_form(f, "options_team_states", {}, "fields")
        ELSE IF errors # {}
        THEN async_show_form(f, "options_team_states", errors, "fields")
        ELSE IF stored.current_team_index < Len(stored.selected_teams)
        THEN IF stored.selected_teams[stored.current_team_index + 1]
                   \notin stored.team_states
             THEN [stored EXCEPT !.pc = "options_get_next_states"]
             ELSE async_show_form(stored, "options_team_states", {}, "fields")
        ELSE [stored EXCEPT !.step = "options_done", !.pc = "idle"]

\* lines 507-528: async_step_options_team_states(user_input) on the handler
\* f, up to its first await: at the first team it loads the configuration of
\* the entry; it awaits the workflow states of the current team unless it
\* has them.
async_step_options_team_states(f, existing_states, user_input) ==
    LET g == [f EXCEPT !.step = "options_team_states", !.errors = {},
                       !.teams_input = {}, !.user_input = user_input,
                       !.team_states_config =
                           IF f.current_team_index = 0 THEN existing_states
                           ELSE @]
    IN  IF g.selected_teams[g.current_team_index + 1] \notin g.team_states
        THEN [g EXCEPT !.pc = "options_get_states"]
        ELSE OptionsTeamStatesValidate(g)

\* lines 471-505: async_step_options_teams once the handler f has the teams.
OptionsTeamsSelected(f, existing_states) ==
    IF f.teams_input = {}
    THEN async_show_form(f, "options_teams", {}, "fields")
    ELSE IF ~TruthyList(Value(f.teams_input))
    THEN async_show_form(f, "options_teams", {"no_teams_selected"}, "fields")
    ELSE async_step_options_team_states(
            [f EXCEPT !.selected_teams = Value(f.teams_input)],
            existing_states, NoTeamConfig)

\* lines 438-461: async_step_options_teams on the handler f for the entry e,
\* with the submitted teams or without input, up to its first await.
async_step_options_teams(f, e, existing_states, teams_input) ==
    LET g == [f EXCEPT !.step = "options_teams", !.errors = {},
                       !.teams_input = teams_input,
                       !.api_token = OptionsApiToken(e)]
    IN  IF ~g.teams THEN [g EXCEPT !.pc = "options_get_teams"]
        ELSE OptionsTeamsSelected(g, existing_states)

\* lines 581-592: when the step has configured the last team it updates the
\* entry, which schedules the update listener.
OptionsResult(f) ==
    /\ flow' = f
    /\ IF f.step = "options_done"
       THEN /\ team_states' = f.team_states_config
            /\ entry' = OptionsEntryData(entry, f.selected_teams, f.api_token)
            /\ setup' = async_update_entry(
                            setup, entry' # entry \/ team_states' # team_states)
       ELSE UNCHANGED <<entry, setup, team_states>>
    /\ UNCHANGED runtimeVars

\* lines 432-461: the host opens the options flow of the entry:
\* async_step_init calls async_step_options_teams without input.
OptionsInit ==
    /\ entry # NoEntry
    /\ flow.step \in {"none", "create_entry", "options_done"}
    /\ OptionsResult(async_step_options_teams(IdleOptionsFlow, entry,
                                              team_states, {}))

\* lines 461-505: async_get_teams of async_step_options_teams is answered.
OptionsGetTeams(outcome) ==
    /\ flow.step = "options_teams"
    /\ flow.pc = "options_get_teams"
    /\ OptionsResult(IF IsApiClientError(outcome)
                     THEN async_show_form(flow, "options_teams",
                                          {"fetch_teams_failed"}, "empty")
                     ELSE OptionsTeamsSelected([flow EXCEPT !.teams = TRUE],
                                               team_states))

\* lines 438-461: the team form is submitted.
OptionsTeams(selected) ==
    /\ flow.step = "options_teams"
    /\ flow.pc = "idle"
    /\ OptionsResult(async_step_options_teams(flow, entry, team_states,
                                              {selected}))

\* lines 507-528 and on: the state form of the current team is submitted.
OptionsTeamStates(user_input) ==
    /\ flow.step = "options_team_states"
    /\ flow.pc = "idle"
    /\ OptionsResult(async_step_options_team_states(flow, team_states,
                                                    user_input))

\* lines 528-595: async_get_workflow_states for the current team is answered.
OptionsGetStates(outcome) ==
    /\ flow.step = "options_team_states"
    /\ flow.pc = "options_get_states"
    /\ LET current_team_id == flow.selected_teams[flow.current_team_index + 1]
       IN  OptionsResult(
              IF IsApiClientError(outcome)
              THEN async_show_form(flow, "options_team_states",
                                   {"fetch_states_failed"}, "empty")
              ELSE OptionsTeamStatesValidate(
                      [flow EXCEPT !.team_states = @ \cup {current_team_id}]))

\* lines 573-579: async_get_workflow_states for the next team is answered,
\* after the submission was stored and the index advanced.
OptionsGetNextStates(outcome) ==
    /\ flow.step = "options_team_states"
    /\ flow.pc = "options_get_next_states"
    /\ LET next_team_id == flow.selected_teams[flow.current_team_index + 1]
       IN  OptionsResult(
              IF IsApiClientError(outcome)
              THEN async_show_form(flow, "options_team_states",
                                   {"fetch_states_failed"}, "fields")
              ELSE async_show_form(
                      [flow EXCEPT !.team_states = @ \cup {next_team_id}],
                      "options_team_states", {}, "fields"))

\* The expires_at of the token that the host hands to the setup flow.
FlowExpiresAt == 4000

\* There is no entry and the handler of the setup flow has been constructed;
\* or an entry is loaded on an empty tracker and no flow is running.
InitFlow ==
    /\ setup \in {NotSetUp, Loaded}
    /\ entry \in IF setup.pc = "none" THEN {NoEntry}
                 ELSE {ApiKeyEntry(0), OAuthEntry(0, FlowExpiresAt)}
    /\ flow = IF setup.pc = "none" THEN IdleFlow ELSE NoFlow
    /\ method_call = IdleMethodCall
    /\ service_call = IdleServiceCall
    /\ api_token = [c \in Clients |-> IF c <= setup.client THEN SetupApiToken(entry)
                                      ELSE NoApiToken]
    /\ token_refresh_callback =
          [c \in Clients |-> c <= setup.client /\ SetupTokenRefreshCallback(entry)]
    /\ refresh_in_progress = [c \in Clients |-> FALSE]
    /\ calls = [t \in Tasks |-> IdleCall]
    /\ team_states = IF setup.pc = "none" THEN NoTeamStatesConfig
                     ELSE [t \in Teams |-> DisjointConfig]
    /\ issues = <<>>
    /\ now = 0
    /\ data = IF setup.pc = "none" THEN <<>> ELSE EmptySnapshot(teams)
    /\ cycle = IdleCycle
    /\ refresh_requested = FALSE
    /\ todo_call = IdleTodoCall
    /\ mutated = NoMutation

NextFlow ==
    \/ \E access_token \in Tokens : FlowOAuthCreateEntry(access_token, FlowExpiresAt)
    \/ \E outcome \in ApiOutcomes : FlowOAuthValidateToken(outcome)
    \/ \E outcome \in ApiOutcomes : FlowOAuthGetTeams(outcome)
    \/ \E token \in Tokens : FlowApiKey(token)
    \/ \E outcome \in ApiOutcomes : FlowTestToken(outcome)
    \/ \E selected \in SelectedTeams : FlowTeams(selected)
    \/ \E outcome \in ApiOutcomes : FlowGetTeams(outcome)
    \/ \E user_input \in TeamStatesInputs : FlowTeamStates(user_input)
    \/ \E outcome \in ApiOutcomes : FlowGetStates(outcome)
    \/ \E outcome \in ApiOutcomes : FlowGetNextStates(outcome)
    \/ OptionsInit
    \/ \E outcome \in ApiOutcomes : OptionsGetTeams(outcome)
    \/ \E selected \in SelectedTeams : OptionsTeams(selected)
    \/ \E user_input \in TeamStatesInputs : OptionsTeamStates(user_input)
    \/ \E outcome \in ApiOutcomes : OptionsGetStates(outcome)
    \/ \E outcome \in ApiOutcomes : OptionsGetNextStates(outcome)
    \/ ReloadEntry
    \/ async_unload_entry
    \/ SetupEntry

SpecFlow == InitFlow /\ [][NextFlow]_vars

\* The flow was authenticated through OAuth: async_oauth_create_entry stored
\* the OAuth data.
AuthenticatedThroughOAuth == flow.oauth_data # {}

\* C19: when the setup flow was authenticated through OAuth, the config entry
\* created at the end of the team-state step holds the stored OAuth data (the
\* token record with its refresh information) merged with the selected teams
\* and the team state configuration, and has no api_token key.
C19_OAuthFlowCreatesOAuthEntry ==
    flow.step = "create_entry" /\ AuthenticatedThroughOAuth =>
       /\ entry.token = flow.oauth_data
       /\ entry.api_token = {}
       /\ entry.teams = flow.selected_teams
       /\ team_states = flow.team_states_config

(***************************************************************************)
(* Further properties of the refresh cycle, under SpecCoordinator.         *)
(***************************************************************************)
\* The finished cycle called async_get_issues for the bucket of team_id.
FetchMade(team_id, bucket) ==
    \E k \in 1..Len(cycle.fetches) :
       cycle.fetches[k].team = team_id /\ cycle.fetches[k].bucket = bucket

\* C21: a failed fetch of one bucket does not stop the cycle: every configured
\* bucket of every team is still fetched, the cycle returns a snapshot with an
\* entry for every team, and the failed bucket is an empty list in it.
C21_FailedFetchDoesNotStopTheCycle ==
    cycle.pc = "done" =>
       /\ cycle.raised = None
       /\ data = cycle.result
       /\ Len(data) = Len(cycle.teams)
       /\ \A k \in 1..Len(cycle.teams) :
             LET t == cycle.teams[k]
             IN  /\ data[k].team = t
                 /\ TruthyList(cycle.team_states[t].todo_states)
                       => FetchMade(t, "todo")
                 /\ Truthy(cycle.team_states[t].completed_state)
                       => FetchMade(t, "completed")
       /\ \A k \in FailedFetches :
             Get(data, cycle.fetches[k].team)[cycle.fetches[k].bucket] = <<>>

\* A cycle whose first fetch failed has ended, and a later fetch of it put an
\* issue into the snapshot.
C21_Witness ==
    /\ cycle.pc = "done"
    /\ 1 \in FailedFetches
    /\ \E j \in 2..Len(cycle.fetches) :
          /\ cycle.fetches[j].nodes # <<>>
          /\ Get(data, cycle.fetches[j].team)[cycle.fetches[j].bucket]
                = cycle.fetches[j].nodes

\* The ids of the nodes a fetch returned.
NodeIds(nodes) == {nodes[k].id : k \in 1..Len(nodes)}

\* This step calls async_get_issues; LastFetch is that call.
FetchStep == Len(cycle'.fetches) = Len(cycle.fetches) + 1
LastFetch == cycle'.fetches[Len(cycle'.fetches)]

\* What a todo fetch and a completed fetch ask for and get, against the
\* tracker and the clock of the moment.
TodoFetchHasNoTimeFilter(f) ==
    LET todo_states == cycle.team_states[f.team].todo_states
    IN  /\ TruthyList(todo_states)
        /\ f.state_ids = todo_states
        /\ f.updated_since = {}
        /\ f.outcome = Returned =>
              NodeIds(f.nodes) = {i \in 1..Len(issues) :
                                    /\ issues[i].team = f.team
                                    /\ InSeq(issues[i].state, todo_states)}
CompletedFetchLooksBackSevenDays(f) ==
    LET completed_state == cycle.team_states[f.team].completed_state
    IN  /\ Truthy(completed_state)
        /\ f.state_ids = <<completed_state>>
        /\ f.updated_since = {cycle.updated_since}
        /\ cycle.updated_since = now - COMPLETED_LOOKBACK_DAYS
        /\ f.outcome = Returned =>
              NodeIds(f.nodes) = {i \in 1..Len(issues) :
                                    /\ issues[i].team = f.team
                                    /\ issues[i].state = completed_state
                                    /\ issues[i].updatedAt >= now - COMPLETED_LOOKBACK_DAYS}

\* C22: in every refresh cycle the completed fetch of a team asks only for
\* the issues in the completed state updated at or after the cycle's start
\* time minus COMPLETED_LOOKBACK_DAYS (7) days, the todo fetch has no time
\* filter, and a fetch is made only for a team with todo states, or with a
\* completed state, configured.
C22_CompletedFetchIsTimeFiltered ==
    [][FetchStep =>
          /\ LastFetch.bucket = "todo" => TodoFetchHasNoTimeFilter(LastFetch)
          /\ LastFetch.bucket = "completed" =>
                CompletedFetchLooksBackSevenDays(LastFetch)]_vars

\* A completed fetch returned nothing although the team has an issue in its
\* completed state: the issue was last updated before the look-back day.
C22_Witness ==
    \E k \in 1..Len(cycle.fetches) :
       LET f == cycle.fetches[k]
       IN  /\ f.bucket = "completed"
           /\ f.outcome = Returned
           /\ f.nodes = <<>>
           /\ \E i \in 1..Len(issues) :
                 /\ issues[i].team = f.team
                 /\ issues[i].state = cycle.team_states[f.team].completed_state
                 /\ issues[i].updatedAt < cycle.updated_since

(***************************************************************************)
(* Further properties of the to-do calls, under SpecTodo.                  *)
(***************************************************************************)
\* This step is the first of a call of the entity: from its first line to
\* its first await, or to its end.
TodoCallStep == todo_call.op = "idle" /\ todo_call'.op # "idle"

\* The call needs a workflow state that the configuration of its team lacks.
NeedsMissingState(call) ==
    LET cfg == team_states[call.team]
    IN  \/ call.op = "create" /\ ~TruthyList(cfg.todo_states)
        \/ call.op = "update" /\ call.new_status = NEEDS_ACTION
              /\ ~TruthyList(cfg.todo_states)
        \/ call.op = "update" /\ call.new_status = COMPLETED
              /\ ~Truthy(cfg.completed_state)
        \/ call.op = "delete" /\ ~Truthy(cfg.removed_state)

\* C23: every to-do mutation that needs a state the team configuration lacks
\* (create or reopen with no todo states, complete with no completed state,
\* delete with no removed state) raises ValueError before any request is sent,
\* so that no remote issue is changed and no refresh is requested.
C23_MissingStateRaisesBeforeAnyRequest ==
    [][TodoCallStep /\ NeedsMissingState(todo_call') =>
          /\ todo_call'.pc = "done"
          /\ todo_call'.raised = "ValueError"
          /\ todo_call'.requests = <<>>
          /\ issues' = issues
          /\ refresh_requested' = refresh_requested]_vars

\* An item of a team without a completed state was to be completed, and the
\* call raised ValueError with nothing sent and no refresh requested.
C23_Witness ==
    /\ todo_call.op = "update"
    /\ todo_call.new_status = COMPLETED
    /\ ~Truthy(team_states[todo_call.team].completed_state)
    /\ todo_call.pc = "done"
    /\ todo_call.raised = "ValueError"
    /\ todo_call.requests = <<>>
    /\ ~refresh_requested

\* The request carries a description or a due date.
CarriesField(request) == request.description # None \/ request.dueDate # None

\* C24: every call of async_update_todo_item sends at most one issue-update
\* mutation: when a field (description or due date) and the status are both
\* to be updated, the one mutation that carries the field carries the state
\* too, and a field update and a state update are never two requests.
C24_UpdateSendsAtMostOneMutation ==
    todo_call.op = "update" =>
       /\ Len(todo_call.requests) <= 1
       /\ \A k \in 1..Len(todo_call.requests) :
             LET request == todo_call.requests[k]
             IN  /\ request.mutation = "issueUpdate"
                 /\ request.id = todo_call.issue_id
                 /\ CarriesField(request)
                       /\ todo_call.new_status \in {COMPLETED, NEEDS_ACTION}
                    => request.stateId # None

\* An update of a description together with the status has ended: its one
\* mutation carries both.
C24_Witness ==
    /\ todo_call.op = "update"
    /\ CallReturned(todo_call)
    /\ Len(todo_call.requests) = 1
    /\ todo_call.requests[1].description # None
    /\ todo_call.requests[1].stateId # None

(***************************************************************************)
(* async_update_issue (api.py lines 249-329) called on its own, on a       *)
(* tracker whose issues have a description and a due date.                 *)
(***************************************************************************)
\* The remote issueUpdate mutation: the fields of the input replace those of
\* the issue, the other fields stay.
issueUpdateInput(remote, request, today) ==
    [remote EXCEPT ![request.id] =
        [@ EXCEPT !.state = IF request.stateId = None THEN @ ELSE request.stateId,
                  !.description =
                      IF request.description = None THEN @ ELSE request.description,
                  !.dueDate = IF request.dueDate = None THEN @ ELSE request.dueDate,
                  !.updatedAt = today]]

\* What the remote answers to the mutation: success true or false in the
\* issueUpdate payload, or what makes _graphql_query raise.
Success == "success: true"
NoSuccess == "success: false"
UpdateAnswers == {Success, NoSuccess} \cup (ApiOutcomes \ {Returned})

\* The arguments of the call and the issues of the tracker.
StateIdArguments == {None, "s2"}
DescriptionArguments == {None, "", "3 litres"}
DueDateArguments == {None, "2026-11-03"}
RemoteIssues ==
    [team : {"t1"}, state : {"s1", "s3"}, updatedAt : {0},
     description : {None, "2 litres"}, dueDate : {None, "2026-11-02"}]

\* lines 249-324: async_update_issue is called and runs up to the await of
\* _graphql_query, where the request has been sent (line 601) and is not yet
\* answered; with no field to update it raises ValueError before (lines
\* 292-294).  The frame: the arguments, where the call stands, the requests
\* sent, the answer of the remote, what the call raised (None: it has not
\* raised), and the tracker when the call began.
UpdateIssue(issue_id, state_id, description, due_date) ==
    /\ method_call.op = "idle"
    /\ issue_id \in 1..Len(issues)
    /\ LET request == async_update_issue(issue_id, state_id, description, due_date)
           frame == [op |-> "async_update_issue", pc |-> "request",
                     issue_id |-> issue_id, state_id |-> state_id,
                     description |-> description, due_date |-> due_date,
                     answer |-> None, requests |-> <<request>>,
                     raised |-> None, before |-> issues]
       IN  method_call' =
              IF request.mutation = "ValueError"
              THEN [frame EXCEPT !.pc = "done", !.requests = <<>>,
                                 !.raised = "ValueError"]
              ELSE frame
    /\ UNCHANGED <<apiVars, entry, setup, flow, service_call, sysVars>>

\* The remote answers the request on which the call is suspended (lines 601
\* and 609): a mutation that succeeds has changed the issue.
UpdateIssueAnswer(answer) ==
    /\ method_call.pc = "request"
    /\ method_call' = [method_call EXCEPT !.pc = "response", !.answer = answer]
    /\ issues' = IF answer = Success
                 THEN issueUpdateInput(issues, method_call.requests[1], now)
                 ELSE issues
    /\ UNCHANGED <<apiVars, entry, setup, flow, service_call, team_states, now,
                   data, cycle, refresh_requested, todo_call, mutated>>

\* lines 324-329: the call is resumed with the answer: what _graphql_query
\* raises ends it, a payload without success raises
\* IntegrationBlueprintApiClientError, otherwise it returns the issue.
UpdateIssueResume ==
    /\ method_call.pc = "response"
    /\ method_call' =
          [method_call EXCEPT !.pc = "done",
              !.raised = IF method_call.answer = Success THEN None
                         ELSE IF method_call.answer = NoSuccess
                         THEN ApiClientError
                         ELSE method_call.answer]
    /\ UNCHANGED <<apiVars, entry, setup, flow, service_call, sysVars>>

\* The call has returned or raised: its frame is gone.
UpdateIssueReturn ==
    /\ method_call.pc = "done"
    /\ method_call' = IdleMethodCall
    /\ UNCHANGED <<apiVars, entry, setup, flow, service_call, sysVars>>

InitUpdateIssue ==
    /\ entry = ApiKeyEntry(0)
    /\ setup = FirstRefresh
    /\ flow = NoFlow
    /\ method_call = IdleMethodCall
    /\ service_call = IdleServiceCall
    /\ api_token = [c \in Clients |-> IF c = 1 THEN SetupApiToken(entry)
                                      ELSE NoApiToken]
    /\ token_refresh_callback =
          [c \in Clients |-> c = 1 /\ SetupTokenRefreshCallback(entry)]
    /\ refresh_in_progress = [c \in Clients |-> FALSE]
    /\ calls = [t \in Tasks |-> IdleCall]
    /\ team_states = [t \in Teams |-> DisjointConfig]
    /\ issues \in {<<issue>> : issue \in RemoteIssues}
    /\ now = 0
    /\ data = <<>>
    /\ cycle = IdleCycle
    /\ refresh_requested = FALSE
    /\ todo_call = IdleTodoCall
    /\ mutated = NoMutation

NextUpdateIssue ==
    \/ \E issue_id \in 1..MaxIssues, state_id \in StateIdArguments,
          description \in DescriptionArguments, due_date \in DueDateArguments :
          UpdateIssue(issue_id, state_id, description, due_date)
    \/ \E answer \in UpdateAnswers : UpdateIssueAnswer(answer)
    \/ UpdateIssueResume
    \/ UpdateIssueReturn

SpecUpdateIssue == InitUpdateIssue /\ [][NextUpdateIssue]_vars

\* The value of a field after a successful update with argument.
Updated(argument, before) == IF argument = None THEN before ELSE argument

\* C25: async_update_issue sends one mutation that sets exactly those of
\* stateId, description and dueDate whose argument is not None and leaves the
\* others as they are on the remote issue; with all three None it raises
\* ValueError and sends nothing; when the remote answers success = false it
\* raises IntegrationBlueprintApiClientError.  The mutation is sent before the
\* call is suspended, the issue is as the claim says from the answer on, and
\* the call has returned or raised when it is done.
C25_UpdateIssueSetsTheGivenFields ==
    method_call.op = "async_update_issue" =>
       LET c == method_call
           none == c.state_id = None /\ c.description = None /\ c.due_date = None
           was == c.before[c.issue_id]
           is == issues[c.issue_id]
       IN  /\ none =>
                 /\ c.pc = "done"
                 /\ c.raised = "ValueError"
                 /\ c.requests = <<>>
                 /\ issues = c.before
           /\ ~none =>
                 /\ Len(c.requests) = 1
                 /\ c.requests[1].mutation = "issueUpdate"
                 /\ c.requests[1].id = c.issue_id
                 /\ c.requests[1].stateId = c.state_id
                 /\ c.requests[1].description = c.description
                 /\ c.requests[1].dueDate = c.due_date
                 /\ c.pc = "request" => c.raised = None /\ issues = c.before
                 /\ c.answer = Success =>
                       /\ c.raised = None
                       /\ is.state = Updated(c.state_id, was.state)
                       /\ is.description = Updated(c.description, was.description)
                       /\ is.dueDate = Updated(c.due_date, was.dueDate)
                       /\ is.team = was.team
                 /\ c.answer = NoSuccess =>
                       /\ issues = c.before
                       /\ c.pc = "done" => c.raised = ApiClientError

\* An update with an empty description and no other argument has succeeded:
\* the issue has lost its description and kept its state and its due date.
C25_Witness ==
    /\ method_call.op = "async_update_issue"
    /\ method_call.pc = "done"
    /\ method_call.raised = None
    /\ method_call.description = ""
    /\ method_call.state_id = None
    /\ method_call.due_date = None
    /\ method_call.before[1].description = "2 litres"
    /\ method_call.before[1].dueDate # None
    /\ issues[1].description = ""
    /\ issues[1].dueDate = method_call.before[1].dueDate

(***************************************************************************)
(* The frame effect of a field update, under SpecTodo.                     *)
(***************************************************************************)
\* The status the entity shows for an issue in state: NEEDS_ACTION for a todo
\* state, COMPLETED for the completed state (the buckets being disjoint).
ShownStatus(cfg, state) ==
    IF InSeq(state, cfg.todo_states) THEN NEEDS_ACTION
    ELSE IF state = cfg.completed_state THEN COMPLETED
    ELSE None

\* The finished call updated a description or a due date of an item and left
\* the status as the entity showed it.
FieldUpdateOnly(call) ==
    /\ call.op = "update"
    /\ CallReturned(call)
    /\ Disjoint(call.cfg)
    /\ call.new_status # None
    /\ call.answers # <<>>
    /\ call.new_status =
          ShownStatus(call.cfg, call.answers[1].before[call.issue_id].state)
    /\ \E k \in 1..Len(call.requests) : CarriesField(call.requests[k])

\* C26: an async_update_todo_item call that changes only the description or
\* the due date of an item and leaves its status as shown leaves the workflow
\* state of the remote issue unchanged, also for an issue in a todo state
\* other than the first one and also when update_fields is None.
C26_FieldUpdateKeepsTheWorkflowState ==
    todo_call.op # "idle" /\ FieldUpdateOnly(todo_call) =>
       issues[todo_call.issue_id].state
          = todo_call.answers[1].before[todo_call.issue_id].state

(***************************************************************************)
(* The team-state step of the setup flow, under SpecFlow.                  *)
(***************************************************************************)
\* The running or the last call of the team-state step was a submission with
\* all three fields filled in.
CompleteSubmission ==
    /\ flow.step \in {"team_states", "create_entry"}
    /\ TruthyList(flow.user_input.todo_states)
    /\ Truthy(flow.user_input.completed_state)
    /\ Truthy(flow.user_input.removed_state)

\* The step has got to its validation (line 253): it is not awaiting the
\* workflow states of the team of the form (line 242), and that fetch has not
\* failed, which ends the step with the empty form of line 247.
Validated ==
    /\ flow.pc # "get_states"
    /\ ~(flow.pc = "idle" /\ flow.step = "team_states"
            /\ flow.data_schema = "empty")

\* The team whose form was submitted last, once the submission is stored.
SubmittedTeam == flow.selected_teams[flow.current_team_index]

\* C27: disjointness of a team's three state buckets is not enforced: the
\* team-state step accepts every submission with the three fields filled in
\* that it gets to validate, and stores it unchanged before it fetches the
\* workflow states of the next team, whether that fetch fails or not; one in
\* which the completed or the removed state is also a todo state, or the
\* completed state is the removed state, included.  No error names a field
\* or the submission, and the entry created at the end has the stored
\* configuration.  The one submission that the step does not store is the
\* one it does not read, because the fetch of the workflow states of its
\* team failed.
C27_TeamStatesAreStoredAsSubmitted ==
    /\ CompleteSubmission /\ Validated =>
          /\ flow.errors \subseteq {"fetch_states_failed"}
          /\ flow.current_team_index >= 1
          /\ flow.team_states_config[SubmittedTeam] = flow.user_input
    /\ CompleteSubmission /\ flow.pc = "idle" /\ ~Validated =>
          flow.errors = {"fetch_states_failed"}
    /\ flow.step = "create_entry" => team_states = flow.team_states_config

\* An entry has been created for two teams: one with its completed state
\* equal to its removed state, the other with its completed and its removed
\* state among its todo states.
C27_Witness ==
    /\ flow.step = "create_entry"
    /\ \E t \in Teams : team_states[t].completed_state = team_states[t].removed_state
                          /\ Truthy(team_states[t].completed_state)
    /\ \E t \in Teams :
          /\ InSeq(team_states[t].completed_state, team_states[t].todo_states)
          /\ InSeq(team_states[t].removed_state, team_states[t].todo_states)

(***************************************************************************)
(* The snapshot of a cycle during which the tracker changes, under         *)
(* SpecCoordinator.                                                        *)
(***************************************************************************)
\* Every team has pairwise disjoint state buckets.
DisjointBuckets ==
    \A k \in 1..Len(cycle.teams) : Disjoint(cycle.team_states[cycle.teams[k]])

\* C28: with pairwise disjoint state buckets and one workflow state per
\* remote issue, no issue id is in both the todo list and the completed list
\* of a team in the cached snapshot of a cycle, also when issue states are
\* changed remotely between the two fetches of that cycle.
C28_NoIssueInBothBuckets ==
    CycleReturned /\ DisjointBuckets =>
       \A k \in 1..Len(data) :
          NodeIds(data[k].todo) \cap NodeIds(data[k].completed) = {}

====
